---- MODULE Spec2Model ----
(***************************************************************************)
(* The document forms of the stock-management frontend: the create forms   *)
(* of InvoicesPage, PurchasesPage and QuotationsPage with their line-item  *)
(* editing, live totals and submission; the actions on listed invoices,    *)
(* the form of StockPage, the search of ProductsPage, the session, the     *)
(* permission table and the API client.                                    *)
(*                                                                         *)
(* Numbers.  A JavaScript number x that holds money (unit price, discount, *)
(* every total) is represented by the integer 10000 * x, so 2500 is 0.25   *)
(* and 50 is half a cent.  Quantities and tax rates (percent) are plain    *)
(* integers.  On the values used here every product and every x * (r/100)  *)
(* is exact, so the arithmetic of the model is the decimal arithmetic the   *)
(* code approximates with binary doubles.                                  *)
(*                                                                         *)
(* One page component is mounted at a time; page says which one, and the  *)
(* other variables are that component's React state.  The free-text fields *)
(* of a line and of the header (itemCode, notes, dates, currency) enter no *)
(* computation and are left out.  The session of AuthProvider (user,       *)
(* token, loading, localStorage) is state of the whole application.        *)
(***************************************************************************)
EXTENDS Integers, Sequences, FiniteSets, TLC

VARIABLES
    page,          \* which page component is mounted
    products,      \* useState<Product[]>([]), filled by fetchData
    formClient,    \* formClient (invoices, quotations)
    formSupplier,  \* formSupplier (purchases)
    formItems,     \* useState<FormItem[]>
    quotations,    \* useState<Quotation[]>([]) of QuotationsPage
    editingQuotation,  \* _id of the quotation being edited, NULL when none
    request,       \* the API call handleSubmit is awaiting, NULL when none
    showModal,     \* the create modal is open
    submitting,    \* true from the create request to its response
    error,         \* the error banner, NULL when none
    totals,        \* const totals = calculateTotals() of the last render
    user,          \* AuthProvider: _id of the User in state, NULL when none
    token,         \* AuthProvider: the token in state
    loading,       \* AuthProvider: session initialisation has not ended
    storedToken,   \* localStorage 'token'
    authCalls,     \* the calls of authApi that are in flight
    lookup,        \* a call of hasPermission: its arguments, then its result
    viteApiUrl,    \* import.meta.env.VITE_API_URL, NULL when not set
    fetchCall,     \* the arguments of the last fetch of request()
    openedBy,      \* QuotationsPage, StockPage: the handler that last opened
                   \* the form modal
    invoices,      \* InvoicesPage: useState<Invoice[]>([])
    selectedInvoice,   \* InvoicesPage: the Invoice selected, NoInvoice for null
    showViewModal,     \* InvoicesPage: useState(false)
    showPaymentModal,  \* InvoicesPage: useState(false)
    showCancelModal,   \* InvoicesPage: useState(false)
    showDeleteModal,   \* InvoicesPage: useState(false)
    docCalls,      \* InvoicesPage: the awaited confirm, recordPayment, cancel
                   \* and delete calls, each the _id it targets or NULL
    movements,     \* StockPage: useState<StockMovement[]>([])
    modalType,     \* StockPage: useState<'in' | 'out' | 'adjustment'>('in')
    editingMovement,   \* StockPage: _id of the movement edited, NULL when none
    formProduct,   \* StockPage: formProduct
    searchTerm,    \* ProductsPage: searchTerm
    filterStatus,  \* ProductsPage: filterStatus
    fetches        \* ProductsPage: the params of the fetchData calls in flight

vars == <<page, products, formClient, formSupplier, formItems, quotations,
          editingQuotation, request, showModal, submitting, error, totals,
          user, token, loading, storedToken, authCalls, lookup, viteApiUrl,
          fetchCall, openedBy, invoices, selectedInvoice, showViewModal,
          showPaymentModal, showCancelModal, showDeleteModal, docCalls,
          movements, modalType, editingMovement, formProduct, searchTerm,
          filterStatus, fetches>>

NULL == "null"

\* The longest line list the model builds.
MaxItems == 2

----------------------------------------------------------------------------
(* Data the backend serves and the values a user types. *)

\* productsApi.getAll: one product, price 0.25, one unit in stock.
CatalogProducts ==
    << [_id |-> "p1", sku |-> "SKU1", currentStock |-> 1,
        averageCost |-> 2500, sellingPrice |-> 2500] >>

ProductIds == {CatalogProducts[i]._id : i \in DOMAIN CatalogProducts}

ClientIds == {"c1"}
SupplierIds == {"s1"}

Quantities == {1, 3}        \* parseInt(e.target.value) || 1
UnitAmounts == {2500}       \* parseFloat(e.target.value) || 0
Discounts == {0, 5000}      \* parseFloat(e.target.value) || 0
TaxCodeType == {"A", "B", "None"}   \* FormItem.taxCode: 'A' | 'B' | 'None'
TaxRates == {0, 18}

\* Line ids.  The first line of a new form has id '1' and addItem gives
\* Date.now().toString().  Ids are only ever compared for equality, and the
\* clock has moved on between two clicks on "+ Add Item": the model names
\* the timestamps "t1", "t2", ... and addItem takes the first one that no
\* line of the form carries.
FirstId == "1"
NowIds == [k \in 1..MaxItems |-> "t" \o ToString(k)]
DateNow(items) ==
    NowIds[CHOOSE k \in DOMAIN NowIds :
              /\ \A i \in DOMAIN items : items[i].id # NowIds[k]
              /\ \A j \in DOMAIN NowIds :
                    (\A i \in DOMAIN items : items[i].id # NowIds[j]) => k <= j]

\* quotationsApi.getAll: one draft quotation of client c1 with two lines of
\* the same product, the second one discounted and zero-rated.
StoredQuotations ==
    << [_id |-> "q1", client |-> "c1", status |-> "draft",
        items |-> << [product |-> "p1", quantity |-> 1, unitPrice |-> 2500,
                      discount |-> 0, taxRate |-> 18],
                     [product |-> "p1", quantity |-> 3, unitPrice |-> 2500,
                      discount |-> 5000, taxRate |-> 0] >>] >>

\* invoicesApi.getAll: a draft invoice and a paid one.
StoredInvoices ==
    << [_id |-> "i1", status |-> "draft"],
       [_id |-> "i2", status |-> "paid"] >>

\* stockApi.getMovements: a receipt and an issue of product p1.
StoredMovements ==
    << [_id |-> "m1", type |-> "in", product |-> "p1"],
       [_id |-> "m2", type |-> "out", product |-> "p1"] >>

\* The products the backend searches for ProductsPage.
ListedProducts ==
    << [_id |-> "p1", name |-> "bolt", status |-> "in_stock"],
       [_id |-> "p2", name |-> "nut", status |-> "low_stock"] >>

\* What a user types in the search box and picks in the status filter.
SearchTerms == {"", "bolt", "nut"}
StatusFilters == {"", "in_stock", "low_stock"}

----------------------------------------------------------------------------
(* JavaScript helpers. *)

\* amount * (rate / 100)
Percent(amount, rate) == (amount * rate) \div 100

\* Math.round(x * 100) / 100: Math.round(y) is floor(y + 0.5).
RoundCents(x) == ((x + 50) \div 100) * 100

\* a || b || 0 on numbers: the first operand that is not 0.
OrElse(a, b) == IF a # 0 THEN a ELSE b

\* Array.prototype.find over a list of records with an _id: Found says
\* whether find returns an element, FindById is that element.
Found(list, id) == \E i \in DOMAIN list : list[i]._id = id

FindById(list, id) ==
    list[CHOOSE i \in DOMAIN list :
            /\ list[i]._id = id
            /\ \A j \in DOMAIN list : list[j]._id = id => i <= j]

\* The table with the two rates exchanged.
TAX_CODES_Swapped ==
    << [value |-> "A", rate |-> 18], [value |-> "B", rate |-> 0] >>

\* TAX_CODES.find(t => t.value === value)
TAX_CODES == << [value |-> "A", rate |-> 0], [value |-> "B", rate |-> 18] >>

FoundTaxCode(value) == \E i \in DOMAIN TAX_CODES : TAX_CODES[i].value = value

FindTaxCode(value) ==
    TAX_CODES[CHOOSE i \in DOMAIN TAX_CODES :
                 /\ TAX_CODES[i].value = value
                 /\ \A j \in DOMAIN TAX_CODES :
                       TAX_CODES[j].value = value => i <= j]

\* formItems.filter(item => item.id !== id)
RECURSIVE FilterOutId(_, _)
FilterOutId(items, id) ==
    IF items = <<>> THEN <<>>
    ELSE IF Head(items).id # id
         THEN <<Head(items)>> \o FilterOutId(Tail(items), id)
         ELSE FilterOutId(Tail(items), id)

ItemIds(items) == {items[i].id : i \in DOMAIN items}

NoTotals == [none |-> TRUE]
Rendered == "grandTotal" \in DOMAIN totals

----------------------------------------------------------------------------
(* InvoicesPage *)

Inv_NewItem(id) ==
    [id |-> id, product |-> "", quantity |-> 1, unitPrice |-> 0,
     discount |-> 0, taxCode |-> "A", taxRate |-> 0]

Inv_calculateItemTotal(item) ==
    LET subtotal == item.quantity * item.unitPrice
        discount == item.discount
        netAmount == subtotal - discount
        tax == Percent(netAmount, item.taxRate)
    IN  netAmount + tax

\* The accumulators of calculateTotals with subtotal not starting at 0.
Inv_ZeroTotals_Seeded ==
    [totalAEx |-> 0, totalB18 |-> 0, totalTaxA |-> 0, totalTaxB |-> 0,
     subtotal |-> 2500, totalDiscount |-> 0]

Inv_ZeroTotals ==
    [totalAEx |-> 0, totalB18 |-> 0, totalTaxA |-> 0, totalTaxB |-> 0,
     subtotal |-> 0, totalDiscount |-> 0]

\* The body of formItems.forEach in calculateTotals.
Inv_accumulate(acc, item) ==
    LET itemSubtotal == item.quantity * item.unitPrice
        itemDiscount == item.discount
        netAmount == itemSubtotal - itemDiscount
        base == [acc EXCEPT !.subtotal = @ + itemSubtotal,
                            !.totalDiscount = @ + itemDiscount]
    IN  IF item.taxCode = "A"
        THEN [base EXCEPT !.totalAEx = @ + netAmount,
                          !.totalTaxA = @ + Percent(netAmount, item.taxRate)]
        ELSE IF item.taxCode = "B"
        THEN [base EXCEPT !.totalB18 = @ + netAmount,
                          !.totalTaxB = @ + Percent(netAmount, item.taxRate)]
        ELSE base

RECURSIVE Inv_forEach(_, _)
Inv_forEach(items, acc) ==
    IF items = <<>> THEN acc
    ELSE Inv_forEach(Tail(items), Inv_accumulate(acc, Head(items)))

\* calculateTotals with the discount left out of grandTotal.
Inv_calculateTotals_NoDiscount(items) ==
    LET acc == Inv_forEach(items, Inv_ZeroTotals)
        totalTax == acc.totalTaxA + acc.totalTaxB
        grandTotal == acc.subtotal + totalTax
        roundedAmount == RoundCents(grandTotal)
    IN  [totalAEx |-> acc.totalAEx, totalB18 |-> acc.totalB18,
         totalTaxA |-> acc.totalTaxA, totalTaxB |-> acc.totalTaxB,
         subtotal |-> acc.subtotal, totalDiscount |-> acc.totalDiscount,
         totalTax |-> totalTax, grandTotal |-> grandTotal,
         roundedAmount |-> roundedAmount]

Inv_calculateTotals(items) ==
    LET acc == Inv_forEach(items, Inv_ZeroTotals)
        totalTax == acc.totalTaxA + acc.totalTaxB
        grandTotal == acc.subtotal - acc.totalDiscount + totalTax
        roundedAmount == RoundCents(grandTotal)
    IN  [totalAEx |-> acc.totalAEx, totalB18 |-> acc.totalB18,
         totalTaxA |-> acc.totalTaxA, totalTaxB |-> acc.totalTaxB,
         subtotal |-> acc.subtotal, totalDiscount |-> acc.totalDiscount,
         totalTax |-> totalTax, grandTotal |-> grandTotal,
         roundedAmount |-> roundedAmount]

\* updateItem: formItems.map(item => item.id === id ? updated : item)
Inv_updateItemFn(items, id, field, value) ==
    [i \in DOMAIN items |->
        IF items[i].id = id
        THEN LET updated == [items[i] EXCEPT ![field] = value]
                 product == FindById(products, value)
                 priced ==
                     IF field = "product" /\ value # "" /\ Found(products, value)
                     THEN [updated EXCEPT !.unitPrice =
                              OrElse(product.sellingPrice,
                                     OrElse(product.averageCost, 0))]
                     ELSE updated
                 tax == FindTaxCode(value)
             IN  IF field = "taxCode" /\ FoundTaxCode(value)
                 THEN [priced EXCEPT !.taxRate = tax.rate]
                 ELSE priced
        ELSE items[i]]

Inv_removeItemFn(items, id) ==
    IF Len(items) > 1 THEN FilterOutId(items, id) ELSE items

\* The items of the create payload, built in handleSubmit.
Inv_payloadItems(items) ==
    [i \in DOMAIN items |->
        LET item == items[i]
            subtotal == item.quantity * item.unitPrice
            discount == item.discount
            netAmount == subtotal - discount
            taxRate == item.taxRate
            taxAmount == Percent(netAmount, taxRate)
            totalWithTax == netAmount + taxAmount
        IN  [product |-> item.product, quantity |-> item.quantity,
             unitPrice |-> item.unitPrice, discount |-> item.discount,
             taxCode |-> item.taxCode, taxRate |-> item.taxRate,
             taxAmount |-> taxAmount, subtotal |-> subtotal,
             totalWithTax |-> totalWithTax]]

\* invoiceData: the argument of invoicesApi.create.
Inv_invoiceData(client, items) ==
    [client |-> client, items |-> Inv_payloadItems(items)]
        @@ Inv_calculateTotals(items)

\* The stock check that only refuses a product that is out of stock.
Inv_insufficientStock_OutOfStockOnly(items) ==
    \E i \in DOMAIN items :
        /\ Found(products, items[i].product)
        /\ FindById(products, items[i].product).currentStock < 1

\* The stock check of handleSubmit: some line asks for more than is in stock.
Inv_insufficientStock(items) ==
    \E i \in DOMAIN items :
        /\ Found(products, items[i].product)
        /\ FindById(products, items[i].product).currentStock
               < items[i].quantity

Inv_fetchData ==
    /\ page = "invoices"
    /\ products = <<>>
    /\ \/ /\ products' = CatalogProducts
          /\ invoices' = StoredInvoices
          /\ UNCHANGED error
       \/ /\ error' = "Failed to load data"
          /\ UNCHANGED <<products, invoices>>
    /\ UNCHANGED <<page, formClient, formSupplier, formItems, quotations,
                   editingQuotation, request, showModal, submitting,
                   totals, user, token, loading, storedToken, authCalls,
                   lookup, viteApiUrl, fetchCall, openedBy,
                   selectedInvoice, showViewModal, showPaymentModal,
                   showCancelModal, showDeleteModal, docCalls, movements,
                   modalType, editingMovement, formProduct, searchTerm,
                   filterStatus, fetches>>

Inv_openCreateModal ==
    /\ page = "invoices"
    /\ ~showModal
    /\ formClient' = ""
    /\ formItems' = <<Inv_NewItem(FirstId)>>
    /\ showModal' = TRUE
    /\ totals' = Inv_calculateTotals(formItems')
    /\ UNCHANGED <<page, products, formSupplier, quotations,
                   editingQuotation, request, submitting, error, user,
                   token, loading, storedToken, authCalls, lookup,
                   viteApiUrl, fetchCall, openedBy, invoices,
                   selectedInvoice, showViewModal, showPaymentModal,
                   showCancelModal, showDeleteModal, docCalls, movements,
                   modalType, editingMovement, formProduct, searchTerm,
                   filterStatus, fetches>>

Inv_closeModal ==
    /\ page = "invoices"
    /\ showModal
    /\ showModal' = FALSE
    /\ UNCHANGED <<page, products, formClient, formSupplier, formItems,
                   quotations, editingQuotation, request, submitting,
                   error, totals, user, token, loading, storedToken,
                   authCalls, lookup, viteApiUrl, fetchCall, openedBy,
                   invoices, selectedInvoice, showViewModal,
                   showPaymentModal, showCancelModal, showDeleteModal,
                   docCalls, movements, modalType, editingMovement,
                   formProduct, searchTerm, filterStatus, fetches>>

Inv_selectClient ==
    /\ page = "invoices"
    /\ showModal
    /\ \E c \in ClientIds : formClient' = c
    /\ UNCHANGED <<page, products, formSupplier, formItems, quotations,
                   editingQuotation, request, showModal, submitting, error,
                   totals, user, token, loading, storedToken, authCalls,
                   lookup, viteApiUrl, fetchCall, openedBy, invoices,
                   selectedInvoice, showViewModal, showPaymentModal,
                   showCancelModal, showDeleteModal, docCalls, movements,
                   modalType, editingMovement, formProduct, searchTerm,
                   filterStatus, fetches>>

Inv_addItem ==
    /\ page = "invoices"
    /\ showModal
    /\ Len(formItems) < MaxItems
    /\ formItems' = Append(formItems, Inv_NewItem(DateNow(formItems)))
    /\ totals' = Inv_calculateTotals(formItems')
    /\ UNCHANGED <<page, products, formClient, formSupplier, quotations,
                   editingQuotation, request, showModal, submitting, error,
                   user, token, loading, storedToken, authCalls, lookup,
                   viteApiUrl, fetchCall, openedBy, invoices,
                   selectedInvoice, showViewModal, showPaymentModal,
                   showCancelModal, showDeleteModal, docCalls, movements,
                   modalType, editingMovement, formProduct, searchTerm,
                   filterStatus, fetches>>

\* The remove button of a row is disabled while the form has one line.
Inv_removeItem ==
    /\ page = "invoices"
    /\ showModal
    /\ Len(formItems) # 1
    /\ \E id \in ItemIds(formItems) :
           formItems' = Inv_removeItemFn(formItems, id)
    /\ totals' = Inv_calculateTotals(formItems')
    /\ UNCHANGED <<page, products, formClient, formSupplier, quotations,
                   editingQuotation, request, showModal, submitting, error,
                   user, token, loading, storedToken, authCalls, lookup,
                   viteApiUrl, fetchCall, openedBy, invoices,
                   selectedInvoice, showViewModal, showPaymentModal,
                   showCancelModal, showDeleteModal, docCalls, movements,
                   modalType, editingMovement, formProduct, searchTerm,
                   filterStatus, fetches>>

\* The inputs of a row: product select, quantity, tax code, unit price.
\* The tax-code value ranges over the whole type of FormItem.taxCode.
Inv_updateItem ==
    /\ page = "invoices"
    /\ showModal
    /\ \E id \in ItemIds(formItems) :
         \/ \E v \in {""} \cup {products[i]._id : i \in DOMAIN products} :
                formItems' = Inv_updateItemFn(formItems, id, "product", v)
         \/ \E v \in Quantities :
                formItems' = Inv_updateItemFn(formItems, id, "quantity", v)
         \/ \E v \in TaxCodeType :
                formItems' = Inv_updateItemFn(formItems, id, "taxCode", v)
         \/ \E v \in UnitAmounts :
                formItems' = Inv_updateItemFn(formItems, id, "unitPrice", v)
    /\ totals' = Inv_calculateTotals(formItems')
    /\ UNCHANGED <<page, products, formClient, formSupplier, quotations,
                   editingQuotation, request, showModal, submitting, error,
                   user, token, loading, storedToken, authCalls, lookup,
                   viteApiUrl, fetchCall, openedBy, invoices,
                   selectedInvoice, showViewModal, showPaymentModal,
                   showCancelModal, showDeleteModal, docCalls, movements,
                   modalType, editingMovement, formProduct, searchTerm,
                   filterStatus, fetches>>

\* handleSubmit up to "await invoicesApi.create(invoiceData)".  The submit
\* button is disabled while submitting.
Inv_handleSubmit ==
    /\ page = "invoices"
    /\ showModal
    /\ ~submitting
    /\ IF formClient = ""
       THEN error' = "Please select a client" /\ UNCHANGED submitting
       ELSE IF \E i \in DOMAIN formItems : formItems[i].product = ""
       THEN error' = "Please select all products" /\ UNCHANGED submitting
       ELSE IF Inv_insufficientStock(formItems)
       THEN error' = "Insufficient stock" /\ UNCHANGED submitting
       ELSE submitting' = TRUE /\ UNCHANGED error
    /\ request' = IF submitting' THEN "invoicesApi.create" ELSE NULL
    /\ UNCHANGED <<page, products, formClient, formSupplier, formItems,
                   quotations, editingQuotation, showModal, totals, user,
                   token, loading, storedToken, authCalls, lookup,
                   viteApiUrl, fetchCall, openedBy, invoices,
                   selectedInvoice, showViewModal, showPaymentModal,
                   showCancelModal, showDeleteModal, docCalls, movements,
                   modalType, editingMovement, formProduct, searchTerm,
                   filterStatus, fetches>>

\* The response of invoicesApi.create: try / catch / finally of handleSubmit.
Inv_createDone ==
    /\ page = "invoices"
    /\ submitting
    /\ \/ showModal' = FALSE /\ UNCHANGED error
       \/ error' = "Failed to save invoice" /\ UNCHANGED showModal
    /\ submitting' = FALSE
    /\ request' = NULL
    /\ UNCHANGED <<page, products, formClient, formSupplier, formItems,
                   quotations, editingQuotation, totals, user, token,
                   loading, storedToken, authCalls, lookup, viteApiUrl,
                   fetchCall, openedBy, invoices, selectedInvoice,
                   showViewModal, showPaymentModal, showCancelModal,
                   showDeleteModal, docCalls, movements, modalType,
                   editingMovement, formProduct, searchTerm, filterStatus,
                   fetches>>

\* The X button of the error banner.
Inv_dismissError ==
    /\ page = "invoices"
    /\ error # NULL
    /\ error' = NULL
    /\ UNCHANGED <<page, products, formClient, formSupplier, formItems,
                   quotations, editingQuotation, request, showModal,
                   submitting, totals, user, token, loading, storedToken,
                   authCalls, lookup, viteApiUrl, fetchCall, openedBy,
                   invoices, selectedInvoice, showViewModal,
                   showPaymentModal, showCancelModal, showDeleteModal,
                   docCalls, movements, modalType, editingMovement,
                   formProduct, searchTerm, filterStatus, fetches>>

----------------------------------------------------------------------------
(* InvoicesPage: the actions on the invoices of the list. *)

\* selectedInvoice is null.
NoInvoice == [none |-> TRUE]

\* confirmLoading, paymentLoading (set by handleRecordPayment and by
\* handleCancelInvoice) and deleteLoading are true from the call to its
\* finally block.
confirmLoading == docCalls.confirm # NULL
paymentLoading == docCalls.recordPayment # NULL \/ docCalls.cancel # NULL
deleteLoading == docCalls.delete # NULL

\* The modals are full-screen overlays ("fixed inset-0 ... z-50") rendered
\* in this order: view, payment, cancel, delete, create form.  The last one
\* rendered covers the others and the table.
Inv_topModal ==
    LET selected == "_id" \in DOMAIN selectedInvoice
    IN  IF showModal THEN "form"
        ELSE IF showDeleteModal /\ selected THEN "delete"
        ELSE IF showCancelModal /\ selected THEN "cancel"
        ELSE IF showPaymentModal /\ selected THEN "payment"
        ELSE IF showViewModal /\ selected THEN "view"
        ELSE "none"

\* The list the backend answers a later invoicesApi.getAll with, after it
\* moved the invoice to a status or deleted it.
Backend_setStatus(list, id, status) ==
    [k \in DOMAIN list |->
        IF list[k]._id = id THEN [list[k] EXCEPT !.status = status]
        ELSE list[k]]

Backend_delete(list, id) == SelectSeq(list, LAMBDA inv : inv._id # id)

\* The View button of a row.
Inv_viewInvoice ==
    /\ page = "invoices"
    /\ Inv_topModal = "none"
    /\ \E k \in DOMAIN invoices : selectedInvoice' = invoices[k]
    /\ showViewModal' = TRUE
    /\ UNCHANGED <<page, products, formClient, formSupplier, formItems,
                   quotations, editingQuotation, request, showModal,
                   submitting, error, totals, user, token, loading,
                   storedToken, authCalls, lookup, viteApiUrl, fetchCall,
                   openedBy, invoices, showPaymentModal, showCancelModal,
                   showDeleteModal, docCalls, movements, modalType,
                   editingMovement, formProduct, searchTerm, filterStatus,
                   fetches>>

\* Record Payment: in a row whose status is confirmed or partial, and in
\* the view modal under the same condition on selectedInvoice.
Inv_openPaymentModal ==
    /\ page = "invoices"
    /\ \/ /\ Inv_topModal = "none"
          /\ \E k \in DOMAIN invoices :
                /\ invoices[k].status \in {"confirmed", "partial"}
                /\ selectedInvoice' = invoices[k]
       \/ /\ Inv_topModal = "view"
          /\ selectedInvoice.status \in {"confirmed", "partial"}
          /\ UNCHANGED selectedInvoice
    /\ showPaymentModal' = TRUE
    /\ UNCHANGED <<page, products, formClient, formSupplier, formItems,
                   quotations, editingQuotation, request, showModal,
                   submitting, error, totals, user, token, loading,
                   storedToken, authCalls, lookup, viteApiUrl, fetchCall,
                   openedBy, invoices, showViewModal, showCancelModal,
                   showDeleteModal, docCalls, movements, modalType,
                   editingMovement, formProduct, searchTerm, filterStatus,
                   fetches>>

\* Cancel Invoice of the view modal.
Inv_openCancelModal ==
    /\ page = "invoices"
    /\ Inv_topModal = "view"
    /\ selectedInvoice.status \notin {"cancelled", "paid"}
    /\ showCancelModal' = TRUE
    /\ UNCHANGED <<page, products, formClient, formSupplier, formItems,
                   quotations, editingQuotation, request, showModal,
                   submitting, error, totals, user, token, loading,
                   storedToken, authCalls, lookup, viteApiUrl, fetchCall,
                   openedBy, invoices, selectedInvoice, showViewModal,
                   showPaymentModal, showDeleteModal, docCalls, movements,
                   modalType, editingMovement, formProduct, searchTerm,
                   filterStatus, fetches>>

\* Delete: in every row, and in the view modal of a draft invoice.
Inv_openDeleteModal ==
    /\ page = "invoices"
    /\ \/ /\ Inv_topModal = "none"
          /\ \E k \in DOMAIN invoices : selectedInvoice' = invoices[k]
       \/ /\ Inv_topModal = "view"
          /\ selectedInvoice.status = "draft"
          /\ UNCHANGED selectedInvoice
    /\ showDeleteModal' = TRUE
    /\ UNCHANGED <<page, products, formClient, formSupplier, formItems,
                   quotations, editingQuotation, request, showModal,
                   submitting, error, totals, user, token, loading,
                   storedToken, authCalls, lookup, viteApiUrl, fetchCall,
                   openedBy, invoices, showViewModal, showPaymentModal,
                   showCancelModal, docCalls, movements, modalType,
                   editingMovement, formProduct, searchTerm, filterStatus,
                   fetches>>

\* The close buttons: setShowXModal(false); setSelectedInvoice(null).  The
\* X button of a modal is never disabled.
Inv_closeViewModal ==
    /\ page = "invoices"
    /\ Inv_topModal = "view"
    /\ showViewModal' = FALSE
    /\ selectedInvoice' = NoInvoice
    /\ UNCHANGED <<page, products, formClient, formSupplier, formItems,
                   quotations, editingQuotation, request, showModal,
                   submitting, error, totals, user, token, loading,
                   storedToken, authCalls, lookup, viteApiUrl, fetchCall,
                   openedBy, invoices, showPaymentModal, showCancelModal,
                   showDeleteModal, docCalls, movements, modalType,
                   editingMovement, formProduct, searchTerm, filterStatus,
                   fetches>>

Inv_closePaymentModal ==
    /\ page = "invoices"
    /\ Inv_topModal = "payment"
    /\ showPaymentModal' = FALSE
    /\ selectedInvoice' = NoInvoice
    /\ UNCHANGED <<page, products, formClient, formSupplier, formItems,
                   quotations, editingQuotation, request, showModal,
                   submitting, error, totals, user, token, loading,
                   storedToken, authCalls, lookup, viteApiUrl, fetchCall,
                   openedBy, invoices, showViewModal, showCancelModal,
                   showDeleteModal, docCalls, movements, modalType,
                   editingMovement, formProduct, searchTerm, filterStatus,
                   fetches>>

Inv_closeCancelModal ==
    /\ page = "invoices"
    /\ Inv_topModal = "cancel"
    /\ showCancelModal' = FALSE
    /\ selectedInvoice' = NoInvoice
    /\ UNCHANGED <<page, products, formClient, formSupplier, formItems,
                   quotations, editingQuotation, request, showModal,
                   submitting, error, totals, user, token, loading,
                   storedToken, authCalls, lookup, viteApiUrl, fetchCall,
                   openedBy, invoices, showViewModal, showPaymentModal,
                   showDeleteModal, docCalls, movements, modalType,
                   editingMovement, formProduct, searchTerm, filterStatus,
                   fetches>>

Inv_closeDeleteModal ==
    /\ page = "invoices"
    /\ Inv_topModal = "delete"
    /\ showDeleteModal' = FALSE
    /\ selectedInvoice' = NoInvoice
    /\ UNCHANGED <<page, products, formClient, formSupplier, formItems,
                   quotations, editingQuotation, request, showModal,
                   submitting, error, totals, user, token, loading,
                   storedToken, authCalls, lookup, viteApiUrl, fetchCall,
                   openedBy, invoices, showViewModal, showPaymentModal,
                   showCancelModal, docCalls, movements, modalType,
                   editingMovement, formProduct, searchTerm, filterStatus,
                   fetches>>

\* handleConfirmInvoice up to "await invoicesApi.confirm": the button of
\* the view modal of a draft invoice, disabled while confirmLoading.
Inv_handleConfirmInvoice ==
    /\ page = "invoices"
    /\ Inv_topModal = "view"
    /\ selectedInvoice.status = "draft"
    /\ ~confirmLoading
    /\ docCalls' = [docCalls EXCEPT !.confirm = selectedInvoice._id]
    /\ UNCHANGED <<page, products, formClient, formSupplier, formItems,
                   quotations, editingQuotation, request, showModal,
                   submitting, error, totals, user, token, loading,
                   storedToken, authCalls, lookup, viteApiUrl, fetchCall,
                   openedBy, invoices, selectedInvoice, showViewModal,
                   showPaymentModal, showCancelModal, showDeleteModal,
                   movements, modalType, editingMovement, formProduct,
                   searchTerm, filterStatus, fetches>>

\* The response of invoicesApi.confirm; on success fetchData() reloads the
\* list.
Inv_confirmDone ==
    /\ page = "invoices"
    /\ docCalls.confirm # NULL
    /\ \/ /\ showViewModal' = FALSE
          /\ selectedInvoice' = NoInvoice
          /\ invoices' =
                Backend_setStatus(invoices, docCalls.confirm, "confirmed")
          /\ UNCHANGED error
       \/ /\ error' = "Failed to confirm invoice"
          /\ UNCHANGED <<showViewModal, selectedInvoice, invoices>>
    /\ docCalls' = [docCalls EXCEPT !.confirm = NULL]
    /\ UNCHANGED <<page, products, formClient, formSupplier, formItems,
                   quotations, editingQuotation, request, showModal,
                   submitting, totals, user, token, loading, storedToken,
                   authCalls, lookup, viteApiUrl, fetchCall, openedBy,
                   showPaymentModal, showCancelModal, showDeleteModal,
                   movements, modalType, editingMovement, formProduct,
                   searchTerm, filterStatus, fetches>>

\* handleRecordPayment up to "await invoicesApi.recordPayment": the submit
\* button of the payment modal, disabled while paymentLoading.
Inv_handleRecordPayment ==
    /\ page = "invoices"
    /\ Inv_topModal = "payment"
    /\ ~paymentLoading
    /\ docCalls' = [docCalls EXCEPT !.recordPayment = selectedInvoice._id]
    /\ UNCHANGED <<page, products, formClient, formSupplier, formItems,
                   quotations, editingQuotation, request, showModal,
                   submitting, error, totals, user, token, loading,
                   storedToken, authCalls, lookup, viteApiUrl, fetchCall,
                   openedBy, invoices, selectedInvoice, showViewModal,
                   showPaymentModal, showCancelModal, showDeleteModal,
                   movements, modalType, editingMovement, formProduct,
                   searchTerm, filterStatus, fetches>>

Inv_recordPaymentDone ==
    /\ page = "invoices"
    /\ docCalls.recordPayment # NULL
    /\ \/ /\ showPaymentModal' = FALSE
          /\ selectedInvoice' = NoInvoice
          /\ \E status \in {"partial", "paid"} :
                invoices' =
                    Backend_setStatus(invoices, docCalls.recordPayment,
                                      status)
          /\ UNCHANGED error
       \/ /\ error' = "Failed to record payment"
          /\ UNCHANGED <<showPaymentModal, selectedInvoice, invoices>>
    /\ docCalls' = [docCalls EXCEPT !.recordPayment = NULL]
    /\ UNCHANGED <<page, products, formClient, formSupplier, formItems,
                   quotations, editingQuotation, request, showModal,
                   submitting, totals, user, token, loading, storedToken,
                   authCalls, lookup, viteApiUrl, fetchCall, openedBy,
                   showViewModal, showCancelModal, showDeleteModal,
                   movements, modalType, editingMovement, formProduct,
                   searchTerm, filterStatus, fetches>>

\* handleCancelInvoice up to "await invoicesApi.cancel": the submit button
\* of the cancel modal, disabled while paymentLoading.
Inv_handleCancelInvoice ==
    /\ page = "invoices"
    /\ Inv_topModal = "cancel"
    /\ ~paymentLoading
    /\ docCalls' = [docCalls EXCEPT !.cancel = selectedInvoice._id]
    /\ UNCHANGED <<page, products, formClient, formSupplier, formItems,
                   quotations, editingQuotation, request, showModal,
                   submitting, error, totals, user, token, loading,
                   storedToken, authCalls, lookup, viteApiUrl, fetchCall,
                   openedBy, invoices, selectedInvoice, showViewModal,
                   showPaymentModal, showCancelModal, showDeleteModal,
                   movements, modalType, editingMovement, formProduct,
                   searchTerm, filterStatus, fetches>>

Inv_cancelDone ==
    /\ page = "invoices"
    /\ docCalls.cancel # NULL
    /\ \/ /\ showCancelModal' = FALSE
          /\ selectedInvoice' = NoInvoice
          /\ invoices' =
                Backend_setStatus(invoices, docCalls.cancel, "cancelled")
          /\ UNCHANGED error
       \/ /\ error' = "Failed to cancel invoice"
          /\ UNCHANGED <<showCancelModal, selectedInvoice, invoices>>
    /\ docCalls' = [docCalls EXCEPT !.cancel = NULL]
    /\ UNCHANGED <<page, products, formClient, formSupplier, formItems,
                   quotations, editingQuotation, request, showModal,
                   submitting, totals, user, token, loading, storedToken,
                   authCalls, lookup, viteApiUrl, fetchCall, openedBy,
                   showViewModal, showPaymentModal, showDeleteModal,
                   movements, modalType, editingMovement, formProduct,
                   searchTerm, filterStatus, fetches>>

\* handleDeleteInvoice up to "await invoicesApi.delete": the Delete button
\* of the delete modal, disabled while deleteLoading.
Inv_handleDeleteInvoice ==
    /\ page = "invoices"
    /\ Inv_topModal = "delete"
    /\ ~deleteLoading
    /\ docCalls' = [docCalls EXCEPT !.delete = selectedInvoice._id]
    /\ UNCHANGED <<page, products, formClient, formSupplier, formItems,
                   quotations, editingQuotation, request, showModal,
                   submitting, error, totals, user, token, loading,
                   storedToken, authCalls, lookup, viteApiUrl, fetchCall,
                   openedBy, invoices, selectedInvoice, showViewModal,
                   showPaymentModal, showCancelModal, showDeleteModal,
                   movements, modalType, editingMovement, formProduct,
                   searchTerm, filterStatus, fetches>>

Inv_deleteDone ==
    /\ page = "invoices"
    /\ docCalls.delete # NULL
    /\ \/ /\ showDeleteModal' = FALSE
          /\ selectedInvoice' = NoInvoice
          /\ showViewModal' = FALSE
          /\ invoices' = Backend_delete(invoices, docCalls.delete)
          /\ UNCHANGED error
       \/ /\ error' = "Failed to delete invoice"
          /\ UNCHANGED <<showDeleteModal, selectedInvoice, showViewModal,
                         invoices>>
    /\ docCalls' = [docCalls EXCEPT !.delete = NULL]
    /\ UNCHANGED <<page, products, formClient, formSupplier, formItems,
                   quotations, editingQuotation, request, showModal,
                   submitting, totals, user, token, loading, storedToken,
                   authCalls, lookup, viteApiUrl, fetchCall, openedBy,
                   showPaymentModal, showCancelModal, movements, modalType,
                   editingMovement, formProduct, searchTerm, filterStatus,
                   fetches>>

----------------------------------------------------------------------------
(* StockPage *)

Stock_fetchData ==
    /\ page = "stock"
    /\ products = <<>>
    /\ \/ /\ movements' = StoredMovements
          /\ products' = CatalogProducts
          /\ UNCHANGED error
       \/ /\ error' = "Failed to load data"
          /\ UNCHANGED <<movements, products>>
    /\ UNCHANGED <<page, formClient, formSupplier, formItems, quotations,
                   editingQuotation, request, showModal, submitting,
                   totals, user, token, loading, storedToken, authCalls,
                   lookup, viteApiUrl, fetchCall, openedBy, invoices,
                   selectedInvoice, showViewModal, showPaymentModal,
                   showCancelModal, showDeleteModal, docCalls, modalType,
                   editingMovement, formProduct, searchTerm, filterStatus,
                   fetches>>

\* The buttons Stock In, Stock Out and Adjustment.
Stock_openModal ==
    /\ page = "stock"
    /\ ~showModal
    /\ \E type \in {"in", "out", "adjustment"} : modalType' = type
    /\ formProduct' = ""
    /\ showModal' = TRUE
    /\ openedBy' = "openModal"
    /\ UNCHANGED <<page, products, formClient, formSupplier, formItems,
                   quotations, editingQuotation, request, submitting,
                   error, totals, user, token, loading, storedToken,
                   authCalls, lookup, viteApiUrl, fetchCall, invoices,
                   selectedInvoice, showViewModal, showPaymentModal,
                   showCancelModal, showDeleteModal, docCalls, movements,
                   editingMovement, searchTerm, filterStatus, fetches>>

\* The Edit button of a movement's row.
Stock_openEditModal ==
    /\ page = "stock"
    /\ ~showModal
    /\ \E k \in DOMAIN movements :
          /\ editingMovement' = movements[k]._id
          /\ modalType' = movements[k].type
          /\ formProduct' = movements[k].product
    /\ showModal' = TRUE
    /\ openedBy' = "openEditModal"
    /\ UNCHANGED <<page, products, formClient, formSupplier, formItems,
                   quotations, editingQuotation, request, submitting,
                   error, totals, user, token, loading, storedToken,
                   authCalls, lookup, viteApiUrl, fetchCall, invoices,
                   selectedInvoice, showViewModal, showPaymentModal,
                   showCancelModal, showDeleteModal, docCalls, movements,
                   searchTerm, filterStatus, fetches>>

\* The X button of the modal: setShowModal(false)
Stock_closeModal ==
    /\ page = "stock"
    /\ showModal
    /\ showModal' = FALSE
    /\ UNCHANGED <<page, products, formClient, formSupplier, formItems,
                   quotations, editingQuotation, request, submitting,
                   error, totals, user, token, loading, storedToken,
                   authCalls, lookup, viteApiUrl, fetchCall, openedBy,
                   invoices, selectedInvoice, showViewModal,
                   showPaymentModal, showCancelModal, showDeleteModal,
                   docCalls, movements, modalType, editingMovement,
                   formProduct, searchTerm, filterStatus, fetches>>

\* The product select: setFormProduct(e.target.value)
Stock_setFormProduct ==
    /\ page = "stock"
    /\ showModal
    /\ \E v \in {""} \cup {products[i]._id : i \in DOMAIN products} :
          formProduct' = v
    /\ UNCHANGED <<page, products, formClient, formSupplier, formItems,
                   quotations, editingQuotation, request, showModal,
                   submitting, error, totals, user, token, loading,
                   storedToken, authCalls, lookup, viteApiUrl, fetchCall,
                   openedBy, invoices, selectedInvoice, showViewModal,
                   showPaymentModal, showCancelModal, showDeleteModal,
                   docCalls, movements, modalType, editingMovement,
                   searchTerm, filterStatus, fetches>>

\* handleSubmit up to the await of the stockApi call.  The product select
\* is required and the submit button is disabled while submitting.
Stock_handleSubmit ==
    /\ page = "stock"
    /\ showModal
    /\ ~submitting
    /\ formProduct # ""
    /\ submitting' = TRUE
    /\ request' = IF editingMovement # NULL THEN "stockApi.updateMovement"
                  ELSE IF modalType = "in" THEN "stockApi.receiveStock"
                  ELSE "stockApi.adjustStock"
    /\ UNCHANGED <<page, products, formClient, formSupplier, formItems,
                   quotations, editingQuotation, showModal, error, totals,
                   user, token, loading, storedToken, authCalls, lookup,
                   viteApiUrl, fetchCall, openedBy, invoices,
                   selectedInvoice, showViewModal, showPaymentModal,
                   showCancelModal, showDeleteModal, docCalls, movements,
                   modalType, editingMovement, formProduct, searchTerm,
                   filterStatus, fetches>>

\* The response of the awaited call: try / catch / finally of handleSubmit.
Stock_submitDone ==
    /\ page = "stock"
    /\ submitting
    /\ \/ /\ showModal' = FALSE
          /\ editingMovement' =
                IF request = "stockApi.updateMovement" THEN NULL
                ELSE editingMovement
          /\ UNCHANGED error
       \/ /\ error' = "Failed to save"
          /\ UNCHANGED <<showModal, editingMovement>>
    /\ submitting' = FALSE
    /\ request' = NULL
    /\ UNCHANGED <<page, products, formClient, formSupplier, formItems,
                   quotations, editingQuotation, totals, user, token,
                   loading, storedToken, authCalls, lookup, viteApiUrl,
                   fetchCall, openedBy, invoices, selectedInvoice,
                   showViewModal, showPaymentModal, showCancelModal,
                   showDeleteModal, docCalls, movements, modalType,
                   formProduct, searchTerm, filterStatus, fetches>>

----------------------------------------------------------------------------
(* ProductsPage: the list and its search.  SuppliersPage fetches its list  *)
(* the same way (fetchSuppliers, searchTerm, filterStatus).                *)

\* fetchData calls the model follows at a time.
MaxFetches == 2

\* productsApi.getAll(params) of the backend: the products that match the
\* search term and the status, an empty value matching all.
Backend_getAll(params) ==
    SelectSeq(ListedProducts,
              LAMBDA p : /\ params.search = "" \/ p.name = params.search
                         /\ params.status = "" \/ p.status = params.status)

\* The search box; useEffect(() => { fetchData() }, [searchTerm, ...]) runs
\* fetchData up to its await when the value changed.
Prod_setSearchTerm ==
    /\ page = "products"
    /\ Cardinality(fetches) < MaxFetches
    /\ \E term \in SearchTerms \ {searchTerm} :
          /\ searchTerm' = term
          /\ fetches' =
                fetches \cup {[search |-> term, status |-> filterStatus]}
    /\ UNCHANGED <<page, products, formClient, formSupplier, formItems,
                   quotations, editingQuotation, request, showModal,
                   submitting, error, totals, user, token, loading,
                   storedToken, authCalls, lookup, viteApiUrl, fetchCall,
                   openedBy, invoices, selectedInvoice, showViewModal,
                   showPaymentModal, showCancelModal, showDeleteModal,
                   docCalls, movements, modalType, editingMovement,
                   formProduct, filterStatus>>

\* The status select, followed by the same effect.
Prod_setFilterStatus ==
    /\ page = "products"
    /\ Cardinality(fetches) < MaxFetches
    /\ \E status \in StatusFilters \ {filterStatus} :
          /\ filterStatus' = status
          /\ fetches' =
                fetches \cup {[search |-> searchTerm, status |-> status]}
    /\ UNCHANGED <<page, products, formClient, formSupplier, formItems,
                   quotations, editingQuotation, request, showModal,
                   submitting, error, totals, user, token, loading,
                   storedToken, authCalls, lookup, viteApiUrl, fetchCall,
                   openedBy, invoices, selectedInvoice, showViewModal,
                   showPaymentModal, showCancelModal, showDeleteModal,
                   docCalls, movements, modalType, editingMovement,
                   formProduct, searchTerm>>

\* The responses of one fetchData call arrive: setProducts, or the catch
\* block.
Prod_fetchDone ==
    /\ page = "products"
    /\ \E f \in fetches :
          /\ fetches' = fetches \ {f}
          /\ \/ /\ products' = Backend_getAll(f)
                /\ UNCHANGED error
             \/ /\ error' = "Failed to load data"
                /\ UNCHANGED products
    /\ UNCHANGED <<page, formClient, formSupplier, formItems, quotations,
                   editingQuotation, request, showModal, submitting,
                   totals, user, token, loading, storedToken, authCalls,
                   lookup, viteApiUrl, fetchCall, openedBy, invoices,
                   selectedInvoice, showViewModal, showPaymentModal,
                   showCancelModal, showDeleteModal, docCalls, movements,
                   modalType, editingMovement, formProduct, searchTerm,
                   filterStatus>>

----------------------------------------------------------------------------
(* PurchasesPage *)

Pur_NewItem(id) ==
    [id |-> id, product |-> "", quantity |-> 1, unitCost |-> 0,
     discount |-> 0, taxCode |-> "A", taxRate |-> 0]

\* The row preview with the tax taken on the amount before discount.
Pur_calculateItemTotal_TaxOnGross(item) ==
    LET subtotal == item.quantity * item.unitCost
        discount == item.discount
        tax == Percent(subtotal, item.taxRate)
    IN  subtotal - discount + tax

Pur_calculateItemTotal(item) ==
    LET subtotal == item.quantity * item.unitCost
        discount == item.discount
        netAmount == subtotal - discount
        tax == Percent(netAmount, item.taxRate)
    IN  netAmount + tax

Pur_ZeroTotals ==
    [totalAEx |-> 0, totalB18 |-> 0, totalTaxA |-> 0, totalTaxB |-> 0,
     subtotal |-> 0, totalDiscount |-> 0]

\* The forEach body with every line that is not 'A' put in the 18% bracket.
Pur_accumulate_NoneAsB(acc, item) ==
    LET itemSubtotal == item.quantity * item.unitCost
        itemDiscount == item.discount
        netAmount == itemSubtotal - itemDiscount
        base == [acc EXCEPT !.subtotal = @ + itemSubtotal,
                            !.totalDiscount = @ + itemDiscount]
    IN  IF item.taxCode = "A"
        THEN [base EXCEPT !.totalAEx = @ + netAmount,
                          !.totalTaxA = @ + Percent(netAmount, item.taxRate)]
        ELSE [base EXCEPT !.totalB18 = @ + netAmount,
                          !.totalTaxB = @ + Percent(netAmount, item.taxRate)]

\* The body of formItems.forEach in calculateTotals.
Pur_accumulate(acc, item) ==
    LET itemSubtotal == item.quantity * item.unitCost
        itemDiscount == item.discount
        netAmount == itemSubtotal - itemDiscount
        base == [acc EXCEPT !.subtotal = @ + itemSubtotal,
                            !.totalDiscount = @ + itemDiscount]
    IN  IF item.taxCode = "A"
        THEN [base EXCEPT !.totalAEx = @ + netAmount,
                          !.totalTaxA = @ + Percent(netAmount, item.taxRate)]
        ELSE IF item.taxCode = "B"
        THEN [base EXCEPT !.totalB18 = @ + netAmount,
                          !.totalTaxB = @ + Percent(netAmount, item.taxRate)]
        ELSE base

RECURSIVE Pur_forEach(_, _)
Pur_forEach(items, acc) ==
    IF items = <<>> THEN acc
    ELSE Pur_forEach(Tail(items), Pur_accumulate(acc, Head(items)))

Pur_calculateTotals(items) ==
    LET acc == Pur_forEach(items, Pur_ZeroTotals)
        totalTax == acc.totalTaxA + acc.totalTaxB
        grandTotal == acc.subtotal - acc.totalDiscount + totalTax
        roundedAmount == RoundCents(grandTotal)
    IN  [totalAEx |-> acc.totalAEx, totalB18 |-> acc.totalB18,
         totalTaxA |-> acc.totalTaxA, totalTaxB |-> acc.totalTaxB,
         subtotal |-> acc.subtotal, totalDiscount |-> acc.totalDiscount,
         totalTax |-> totalTax, grandTotal |-> grandTotal,
         roundedAmount |-> roundedAmount]

\* updateItem: formItems.map(item => item.id === id ? updated : item)
Pur_updateItemFn(items, id, field, value) ==
    [i \in DOMAIN items |->
        IF items[i].id = id
        THEN LET updated == [items[i] EXCEPT ![field] = value]
                 product == FindById(products, value)
                 priced ==
                     IF field = "product" /\ value # "" /\ Found(products, value)
                     THEN [updated EXCEPT !.unitCost =
                              OrElse(product.averageCost, 0)]
                     ELSE updated
                 tax == FindTaxCode(value)
             IN  IF field = "taxCode" /\ FoundTaxCode(value)
                 THEN [priced EXCEPT !.taxRate = tax.rate]
                 ELSE priced
        ELSE items[i]]

Pur_removeItemFn(items, id) ==
    IF Len(items) > 1 THEN FilterOutId(items, id) ELSE items

\* The items of the create payload, built in handleSubmit.
Pur_payloadItems(items) ==
    [i \in DOMAIN items |->
        LET item == items[i]
            subtotal == item.quantity * item.unitCost
            discount == item.discount
            netAmount == subtotal - discount
            taxRate == item.taxRate
            taxAmount == Percent(netAmount, taxRate)
            totalWithTax == netAmount + taxAmount
        IN  [product |-> item.product, quantity |-> item.quantity,
             unitCost |-> item.unitCost, discount |-> item.discount,
             taxCode |-> item.taxCode, taxRate |-> item.taxRate,
             taxAmount |-> taxAmount, subtotal |-> subtotal,
             totalWithTax |-> totalWithTax]]

\* purchaseData: the argument of purchasesApi.create.
Pur_purchaseData(supplier, items) ==
    [supplier |-> supplier, items |-> Pur_payloadItems(items)]
        @@ Pur_calculateTotals(items)

Pur_fetchData ==
    /\ page = "purchases"
    /\ products = <<>>
    /\ \/ /\ products' = CatalogProducts
          /\ UNCHANGED error
       \/ /\ error' = "Failed to load data"
          /\ UNCHANGED products
    /\ UNCHANGED <<page, formClient, formSupplier, formItems, quotations,
                   editingQuotation, request, showModal, submitting,
                   totals, user, token, loading, storedToken, authCalls,
                   lookup, viteApiUrl, fetchCall, openedBy, invoices,
                   selectedInvoice, showViewModal, showPaymentModal,
                   showCancelModal, showDeleteModal, docCalls, movements,
                   modalType, editingMovement, formProduct, searchTerm,
                   filterStatus, fetches>>

Pur_openCreateModal ==
    /\ page = "purchases"
    /\ ~showModal
    /\ formSupplier' = ""
    /\ formItems' = <<Pur_NewItem(FirstId)>>
    /\ showModal' = TRUE
    /\ totals' = Pur_calculateTotals(formItems')
    /\ UNCHANGED <<page, products, formClient, quotations,
                   editingQuotation, request, submitting, error, user,
                   token, loading, storedToken, authCalls, lookup,
                   viteApiUrl, fetchCall, openedBy, invoices,
                   selectedInvoice, showViewModal, showPaymentModal,
                   showCancelModal, showDeleteModal, docCalls, movements,
                   modalType, editingMovement, formProduct, searchTerm,
                   filterStatus, fetches>>

Pur_closeModal ==
    /\ page = "purchases"
    /\ showModal
    /\ showModal' = FALSE
    /\ UNCHANGED <<page, products, formClient, formSupplier, formItems,
                   quotations, editingQuotation, request, submitting,
                   error, totals, user, token, loading, storedToken,
                   authCalls, lookup, viteApiUrl, fetchCall, openedBy,
                   invoices, selectedInvoice, showViewModal,
                   showPaymentModal, showCancelModal, showDeleteModal,
                   docCalls, movements, modalType, editingMovement,
                   formProduct, searchTerm, filterStatus, fetches>>

Pur_selectSupplier ==
    /\ page = "purchases"
    /\ showModal
    /\ \E c \in SupplierIds : formSupplier' = c
    /\ UNCHANGED <<page, products, formClient, formItems, quotations,
                   editingQuotation, request, showModal, submitting, error,
                   totals, user, token, loading, storedToken, authCalls,
                   lookup, viteApiUrl, fetchCall, openedBy, invoices,
                   selectedInvoice, showViewModal, showPaymentModal,
                   showCancelModal, showDeleteModal, docCalls, movements,
                   modalType, editingMovement, formProduct, searchTerm,
                   filterStatus, fetches>>

Pur_addItem ==
    /\ page = "purchases"
    /\ showModal
    /\ Len(formItems) < MaxItems
    /\ formItems' = Append(formItems, Pur_NewItem(DateNow(formItems)))
    /\ totals' = Pur_calculateTotals(formItems')
    /\ UNCHANGED <<page, products, formClient, formSupplier, quotations,
                   editingQuotation, request, showModal, submitting, error,
                   user, token, loading, storedToken, authCalls, lookup,
                   viteApiUrl, fetchCall, openedBy, invoices,
                   selectedInvoice, showViewModal, showPaymentModal,
                   showCancelModal, showDeleteModal, docCalls, movements,
                   modalType, editingMovement, formProduct, searchTerm,
                   filterStatus, fetches>>

\* The remove button of a row is disabled while the form has one line.
Pur_removeItem ==
    /\ page = "purchases"
    /\ showModal
    /\ Len(formItems) # 1
    /\ \E id \in ItemIds(formItems) :
           formItems' = Pur_removeItemFn(formItems, id)
    /\ totals' = Pur_calculateTotals(formItems')
    /\ UNCHANGED <<page, products, formClient, formSupplier, quotations,
                   editingQuotation, request, showModal, submitting, error,
                   user, token, loading, storedToken, authCalls, lookup,
                   viteApiUrl, fetchCall, openedBy, invoices,
                   selectedInvoice, showViewModal, showPaymentModal,
                   showCancelModal, showDeleteModal, docCalls, movements,
                   modalType, editingMovement, formProduct, searchTerm,
                   filterStatus, fetches>>

\* The inputs of a row: product select, quantity, unit cost, discount, tax
\* code.
\* The tax-code value ranges over the whole type of FormItem.taxCode.
Pur_updateItem ==
    /\ page = "purchases"
    /\ showModal
    /\ \E id \in ItemIds(formItems) :
         \/ \E v \in {""} \cup {products[i]._id : i \in DOMAIN products} :
                formItems' = Pur_updateItemFn(formItems, id, "product", v)
         \/ \E v \in Quantities :
                formItems' = Pur_updateItemFn(formItems, id, "quantity", v)
         \/ \E v \in TaxCodeType :
                formItems' = Pur_updateItemFn(formItems, id, "taxCode", v)
         \/ \E v \in UnitAmounts :
                formItems' = Pur_updateItemFn(formItems, id, "unitCost", v)
         \/ \E v \in Discounts :
                formItems' = Pur_updateItemFn(formItems, id, "discount", v)
    /\ totals' = Pur_calculateTotals(formItems')
    /\ UNCHANGED <<page, products, formClient, formSupplier, quotations,
                   editingQuotation, request, showModal, submitting, error,
                   user, token, loading, storedToken, authCalls, lookup,
                   viteApiUrl, fetchCall, openedBy, invoices,
                   selectedInvoice, showViewModal, showPaymentModal,
                   showCancelModal, showDeleteModal, docCalls, movements,
                   modalType, editingMovement, formProduct, searchTerm,
                   filterStatus, fetches>>

\* handleSubmit without the check that every line has a product.
Pur_handleSubmit_NoProductCheck ==
    /\ page = "purchases"
    /\ showModal
    /\ ~submitting
    /\ IF formSupplier = ""
       THEN error' = "Please select a supplier" /\ UNCHANGED submitting
       ELSE submitting' = TRUE /\ UNCHANGED error
    /\ request' = IF submitting' THEN "purchasesApi.create" ELSE NULL
    /\ UNCHANGED <<page, products, formClient, formSupplier, formItems,
                   quotations, editingQuotation, showModal, totals, user,
                   token, loading, storedToken, authCalls, lookup,
                   viteApiUrl, fetchCall, openedBy, invoices,
                   selectedInvoice, showViewModal, showPaymentModal,
                   showCancelModal, showDeleteModal, docCalls, movements,
                   modalType, editingMovement, formProduct, searchTerm,
                   filterStatus, fetches>>

\* handleSubmit up to "await purchasesApi.create(purchaseData)".  The submit
\* button is disabled while submitting.
Pur_handleSubmit ==
    /\ page = "purchases"
    /\ showModal
    /\ ~submitting
    /\ IF formSupplier = ""
       THEN error' = "Please select a supplier" /\ UNCHANGED submitting
       ELSE IF \E i \in DOMAIN formItems : formItems[i].product = ""
       THEN error' = "Please select all products" /\ UNCHANGED submitting
       ELSE submitting' = TRUE /\ UNCHANGED error
    /\ request' = IF submitting' THEN "purchasesApi.create" ELSE NULL
    /\ UNCHANGED <<page, products, formClient, formSupplier, formItems,
                   quotations, editingQuotation, showModal, totals, user,
                   token, loading, storedToken, authCalls, lookup,
                   viteApiUrl, fetchCall, openedBy, invoices,
                   selectedInvoice, showViewModal, showPaymentModal,
                   showCancelModal, showDeleteModal, docCalls, movements,
                   modalType, editingMovement, formProduct, searchTerm,
                   filterStatus, fetches>>

\* The response of purchasesApi.create: try / catch / finally of handleSubmit.
Pur_createDone ==
    /\ page = "purchases"
    /\ submitting
    /\ \/ showModal' = FALSE /\ UNCHANGED error
       \/ error' = "Failed to save purchase" /\ UNCHANGED showModal
    /\ submitting' = FALSE
    /\ request' = NULL
    /\ UNCHANGED <<page, products, formClient, formSupplier, formItems,
                   quotations, editingQuotation, totals, user, token,
                   loading, storedToken, authCalls, lookup, viteApiUrl,
                   fetchCall, openedBy, invoices, selectedInvoice,
                   showViewModal, showPaymentModal, showCancelModal,
                   showDeleteModal, docCalls, movements, modalType,
                   editingMovement, formProduct, searchTerm, filterStatus,
                   fetches>>

\* The X button of the error banner.
Pur_dismissError ==
    /\ page = "purchases"
    /\ error # NULL
    /\ error' = NULL
    /\ UNCHANGED <<page, products, formClient, formSupplier, formItems,
                   quotations, editingQuotation, request, showModal,
                   submitting, totals, user, token, loading, storedToken,
                   authCalls, lookup, viteApiUrl, fetchCall, openedBy,
                   invoices, selectedInvoice, showViewModal,
                   showPaymentModal, showCancelModal, showDeleteModal,
                   docCalls, movements, modalType, editingMovement,
                   formProduct, searchTerm, filterStatus, fetches>>

----------------------------------------------------------------------------
(* QuotationsPage *)

Quo_NewItem(id) ==
    [id |-> id, product |-> "", quantity |-> 1, unitPrice |-> 0,
     discount |-> 0, taxRate |-> 18]

\* openEditModal: (quotation.items || []).map((it, idx) => ({ ... })).  The
\* stored lines carry a populated product, so the id is its _id.
Quo_itemsOf(quotation) ==
    [idx \in DOMAIN quotation.items |->
        LET it == quotation.items[idx]
        IN  [id |-> it.product, product |-> it.product,
             quantity |-> OrElse(it.quantity, 1),
             unitPrice |-> OrElse(it.unitPrice, 0),
             discount |-> OrElse(it.discount, 0),
             taxRate |-> OrElse(it.taxRate, 18)]]

Quo_calculateItemTotal(item) ==
    LET subtotal == item.quantity * item.unitPrice
        discount == item.discount
        tax == Percent(subtotal - discount, item.taxRate)
    IN  subtotal - discount + tax

\* The body of formItems.forEach in calculateTotals.
Quo_accumulate(acc, item) ==
    LET itemSubtotal == item.quantity * item.unitPrice
    IN  [subtotal |-> acc.subtotal + itemSubtotal,
         totalTax |-> acc.totalTax
                        + Percent(itemSubtotal - item.discount, item.taxRate)]

RECURSIVE Quo_forEach(_, _)
Quo_forEach(items, acc) ==
    IF items = <<>> THEN acc
    ELSE Quo_forEach(Tail(items), Quo_accumulate(acc, Head(items)))

Quo_calculateTotals(items) ==
    LET acc == Quo_forEach(items, [subtotal |-> 0, totalTax |-> 0])
    IN  [subtotal |-> acc.subtotal, totalTax |-> acc.totalTax,
         grandTotal |-> acc.subtotal + acc.totalTax]

Quo_updateItemFn(items, id, field, value) ==
    [i \in DOMAIN items |->
        IF items[i].id = id
        THEN LET updated == [items[i] EXCEPT ![field] = value]
             IN  IF field = "product" /\ value # "" /\ Found(products, value)
                 THEN [updated EXCEPT !.unitPrice =
                          OrElse(FindById(products, value).averageCost, 0)]
                 ELSE updated
        ELSE items[i]]

Quo_removeItemFn(items, id) ==
    IF Len(items) > 1 THEN FilterOutId(items, id) ELSE items

\* The items of the payload, built in handleSubmit.
Quo_payloadItems(items) ==
    [i \in DOMAIN items |->
        LET item == items[i]
            subtotal == item.quantity * item.unitPrice
            totalTax == Percent(subtotal - item.discount, item.taxRate)
        IN  [product |-> item.product, quantity |-> item.quantity,
             unitPrice |-> item.unitPrice, discount |-> item.discount,
             taxRate |-> item.taxRate, subtotal |-> subtotal,
             total |-> subtotal - item.discount + totalTax]]

\* quotationData: the argument of quotationsApi.create / update.
Quo_quotationData(client, items) ==
    LET t == Quo_calculateTotals(items)
    IN  [client |-> client, items |-> Quo_payloadItems(items),
         subtotal |-> t.subtotal, totalTax |-> t.totalTax,
         grandTotal |-> t.grandTotal]

Quo_fetchData ==
    /\ page = "quotations"
    /\ products = <<>>
    /\ \/ /\ products' = CatalogProducts
          /\ quotations' = StoredQuotations
          /\ UNCHANGED error
       \/ /\ error' = "Failed to load data"
          /\ UNCHANGED <<products, quotations>>
    /\ UNCHANGED <<page, formClient, formSupplier, formItems,
                   editingQuotation, request, showModal, submitting,
                   totals, user, token, loading, storedToken, authCalls,
                   lookup, viteApiUrl, fetchCall, openedBy, invoices,
                   selectedInvoice, showViewModal, showPaymentModal,
                   showCancelModal, showDeleteModal, docCalls, movements,
                   modalType, editingMovement, formProduct, searchTerm,
                   filterStatus, fetches>>

Quo_openCreateModal ==
    /\ page = "quotations"
    /\ ~showModal
    /\ formClient' = ""
    /\ formItems' = <<Quo_NewItem(FirstId)>>
    /\ showModal' = TRUE
    /\ openedBy' = "openCreateModal"
    /\ totals' = Quo_calculateTotals(formItems')
    /\ UNCHANGED <<page, products, formSupplier, quotations,
                   editingQuotation, request, submitting, error, user,
                   token, loading, storedToken, authCalls, lookup,
                   viteApiUrl, fetchCall, invoices, selectedInvoice,
                   showViewModal, showPaymentModal, showCancelModal,
                   showDeleteModal, docCalls, movements, modalType,
                   editingMovement, formProduct, searchTerm, filterStatus,
                   fetches>>

\* The Edit button of a row whose status is draft or sent.
Quo_openEditModal ==
    /\ page = "quotations"
    /\ ~showModal
    /\ \E k \in DOMAIN quotations :
         /\ quotations[k].status \in {"draft", "sent"}
         /\ editingQuotation' = quotations[k]._id
         /\ formClient' = quotations[k].client
         /\ formItems' = Quo_itemsOf(quotations[k])
    /\ showModal' = TRUE
    /\ openedBy' = "openEditModal"
    /\ totals' = Quo_calculateTotals(formItems')
    /\ UNCHANGED <<page, products, formSupplier, quotations, request,
                   submitting, error, user, token, loading, storedToken,
                   authCalls, lookup, viteApiUrl, fetchCall, invoices,
                   selectedInvoice, showViewModal, showPaymentModal,
                   showCancelModal, showDeleteModal, docCalls, movements,
                   modalType, editingMovement, formProduct, searchTerm,
                   filterStatus, fetches>>

Quo_closeModal ==
    /\ page = "quotations"
    /\ showModal
    /\ showModal' = FALSE
    /\ UNCHANGED <<page, products, formClient, formSupplier, formItems,
                   quotations, editingQuotation, request, submitting,
                   error, totals, user, token, loading, storedToken,
                   authCalls, lookup, viteApiUrl, fetchCall, openedBy,
                   invoices, selectedInvoice, showViewModal,
                   showPaymentModal, showCancelModal, showDeleteModal,
                   docCalls, movements, modalType, editingMovement,
                   formProduct, searchTerm, filterStatus, fetches>>

\* The client select: setFormClient(e.target.value)
Quo_setFormClient ==
    /\ page = "quotations"
    /\ showModal
    /\ \E c \in {""} \cup ClientIds : formClient' = c
    /\ UNCHANGED <<page, products, formSupplier, formItems, quotations,
                   editingQuotation, request, showModal, submitting, error,
                   totals, user, token, loading, storedToken, authCalls,
                   lookup, viteApiUrl, fetchCall, openedBy, invoices,
                   selectedInvoice, showViewModal, showPaymentModal,
                   showCancelModal, showDeleteModal, docCalls, movements,
                   modalType, editingMovement, formProduct, searchTerm,
                   filterStatus, fetches>>

Quo_addItem ==
    /\ page = "quotations"
    /\ showModal
    /\ Len(formItems) < MaxItems
    /\ formItems' = Append(formItems, Quo_NewItem(DateNow(formItems)))
    /\ totals' = Quo_calculateTotals(formItems')
    /\ UNCHANGED <<page, products, formClient, formSupplier, quotations,
                   editingQuotation, request, showModal, submitting, error,
                   user, token, loading, storedToken, authCalls, lookup,
                   viteApiUrl, fetchCall, openedBy, invoices,
                   selectedInvoice, showViewModal, showPaymentModal,
                   showCancelModal, showDeleteModal, docCalls, movements,
                   modalType, editingMovement, formProduct, searchTerm,
                   filterStatus, fetches>>

\* The remove button of a row is disabled while the form has one line.
Quo_removeItem ==
    /\ page = "quotations"
    /\ showModal
    /\ Len(formItems) # 1
    /\ \E id \in ItemIds(formItems) :
           formItems' = Quo_removeItemFn(formItems, id)
    /\ totals' = Quo_calculateTotals(formItems')
    /\ UNCHANGED <<page, products, formClient, formSupplier, quotations,
                   editingQuotation, request, showModal, submitting, error,
                   user, token, loading, storedToken, authCalls, lookup,
                   viteApiUrl, fetchCall, openedBy, invoices,
                   selectedInvoice, showViewModal, showPaymentModal,
                   showCancelModal, showDeleteModal, docCalls, movements,
                   modalType, editingMovement, formProduct, searchTerm,
                   filterStatus, fetches>>

\* The inputs of a row: product select, quantity, unit price, discount,
\* tax rate.
Quo_updateItem ==
    /\ page = "quotations"
    /\ showModal
    /\ \E id \in ItemIds(formItems) :
         \/ \E v \in {""} \cup {products[i]._id : i \in DOMAIN products} :
                formItems' = Quo_updateItemFn(formItems, id, "product", v)
         \/ \E v \in Quantities :
                formItems' = Quo_updateItemFn(formItems, id, "quantity", v)
         \/ \E v \in UnitAmounts :
                formItems' = Quo_updateItemFn(formItems, id, "unitPrice", v)
         \/ \E v \in Discounts :
                formItems' = Quo_updateItemFn(formItems, id, "discount", v)
         \/ \E v \in TaxRates :
                formItems' = Quo_updateItemFn(formItems, id, "taxRate", v)
    /\ totals' = Quo_calculateTotals(formItems')
    /\ UNCHANGED <<page, products, formClient, formSupplier, quotations,
                   editingQuotation, request, showModal, submitting, error,
                   user, token, loading, storedToken, authCalls, lookup,
                   viteApiUrl, fetchCall, openedBy, invoices,
                   selectedInvoice, showViewModal, showPaymentModal,
                   showCancelModal, showDeleteModal, docCalls, movements,
                   modalType, editingMovement, formProduct, searchTerm,
                   filterStatus, fetches>>

\* handleSubmit up to the await of quotationsApi.update / create.  The
\* submit button is disabled while submitting.
Quo_handleSubmit ==
    /\ page = "quotations"
    /\ showModal
    /\ ~submitting
    /\ IF formClient = ""
       THEN error' = "Please select a client" /\ UNCHANGED submitting
       ELSE IF \E i \in DOMAIN formItems : formItems[i].product = ""
       THEN error' = "Please select all products" /\ UNCHANGED submitting
       ELSE submitting' = TRUE /\ UNCHANGED error
    /\ request' = IF ~submitting' THEN NULL
                  ELSE IF editingQuotation # NULL THEN "quotationsApi.update"
                  ELSE "quotationsApi.create"
    /\ UNCHANGED <<page, products, formClient, formSupplier, formItems,
                   quotations, editingQuotation, showModal, totals, user,
                   token, loading, storedToken, authCalls, lookup,
                   viteApiUrl, fetchCall, openedBy, invoices,
                   selectedInvoice, showViewModal, showPaymentModal,
                   showCancelModal, showDeleteModal, docCalls, movements,
                   modalType, editingMovement, formProduct, searchTerm,
                   filterStatus, fetches>>

\* The response of the awaited call: try / catch / finally of handleSubmit.
Quo_submitDone ==
    /\ page = "quotations"
    /\ submitting
    /\ \/ /\ showModal' = FALSE
          /\ editingQuotation' =
                IF request = "quotationsApi.update" THEN NULL
                ELSE editingQuotation
          /\ UNCHANGED error
       \/ /\ error' = "Failed to save quotation"
          /\ UNCHANGED <<showModal, editingQuotation>>
    /\ submitting' = FALSE
    /\ request' = NULL
    /\ UNCHANGED <<page, products, formClient, formSupplier, formItems,
                   quotations, totals, user, token, loading, storedToken,
                   authCalls, lookup, viteApiUrl, fetchCall, openedBy,
                   invoices, selectedInvoice, showViewModal,
                   showPaymentModal, showCancelModal, showDeleteModal,
                   docCalls, movements, modalType, editingMovement,
                   formProduct, searchTerm, filterStatus, fetches>>

----------------------------------------------------------------------------
(* The session: AuthProvider and the permission table. *)

\* The accounts the backend knows, one of each role, each with the token
\* /auth/login issues for it.
Accounts ==
    << [_id |-> "u1", role |-> "admin", token |-> "t1"],
       [_id |-> "u2", role |-> "stock_manager", token |-> "t2"],
       [_id |-> "u3", role |-> "sales", token |-> "t3"],
       [_id |-> "u4", role |-> "viewer", token |-> "t4"] >>

AccountIds == {Accounts[i]._id : i \in DOMAIN Accounts}
Tokens == {Accounts[i].token : i \in DOMAIN Accounts}

\* The account a token was issued for.
AccountOfToken(t) ==
    Accounts[CHOOSE i \in DOMAIN Accounts : Accounts[i].token = t]

\* Pending logout calls the model follows at a time.
MaxLogouts == 1

\* user?.role, NULL for undefined.
UserRole(u) == IF u = NULL THEN NULL ELSE FindById(Accounts, u).role

\* isAuthenticated: !!token && !!user
isAuthenticated == token # NULL /\ user # NULL

\* No call in flight: getMe is "none" before initAuth ran, sent is the token
\* a pending getMe carries, signIn the account of a pending login or
\* register call and via which of the two it is, logouts the number of
\* pending logout calls and logout how the promise of the last settled one
\* ended ("resolved" or "rejected": try / finally rethrows the error).
NoAuthCalls ==
    [getMe |-> "none", sent |-> NULL, signIn |-> NULL, via |-> NULL,
     logouts |-> 0, logout |-> "none"]

\* useEffect(() => { initAuth() }, []) up to "await authApi.getMe()".
Auth_initAuth ==
    /\ authCalls.getMe = "none"
    /\ IF storedToken # NULL
       THEN /\ authCalls' = [authCalls EXCEPT !.getMe = "pending",
                                                !.sent = storedToken]
            /\ UNCHANGED loading
       ELSE /\ authCalls' = [authCalls EXCEPT !.getMe = "done"]
            /\ loading' = FALSE
    /\ UNCHANGED <<page, products, formClient, formSupplier, formItems,
                   quotations, editingQuotation, request, showModal,
                   submitting, error, totals, user, token, storedToken,
                   lookup, viteApiUrl, fetchCall, openedBy, invoices,
                   selectedInvoice, showViewModal, showPaymentModal,
                   showCancelModal, showDeleteModal, docCalls, movements,
                   modalType, editingMovement, formProduct, searchTerm,
                   filterStatus, fetches>>

\* The response of authApi.getMe: try / catch of initAuth, setLoading(false).
Auth_getMeDone ==
    /\ authCalls.getMe = "pending"
    /\ \/ /\ user' = AccountOfToken(authCalls.sent)._id
          /\ UNCHANGED <<token, storedToken>>
       \/ /\ storedToken' = NULL
          /\ token' = NULL
          /\ UNCHANGED user
    /\ loading' = FALSE
    /\ authCalls' = [authCalls EXCEPT !.getMe = "done", !.sent = NULL]
    /\ UNCHANGED <<page, products, formClient, formSupplier, formItems,
                   quotations, editingQuotation, request, showModal,
                   submitting, error, totals, lookup, viteApiUrl,
                   fetchCall, openedBy, invoices, selectedInvoice,
                   showViewModal, showPaymentModal, showCancelModal,
                   showDeleteModal, docCalls, movements, modalType,
                   editingMovement, formProduct, searchTerm, filterStatus,
                   fetches>>

\* login / register up to the await of authApi.login / authApi.register.
\* LoginPage is routed while isAuthenticated is false and its submit button
\* is disabled while a call is pending.
Auth_login ==
    /\ authCalls.getMe # "none"
    /\ ~isAuthenticated
    /\ authCalls.signIn = NULL
    /\ \E a \in AccountIds :
          authCalls' = [authCalls EXCEPT !.signIn = a, !.via = "login"]
    /\ UNCHANGED <<page, products, formClient, formSupplier, formItems,
                   quotations, editingQuotation, request, showModal,
                   submitting, error, totals, user, token, loading,
                   storedToken, lookup, viteApiUrl, fetchCall, openedBy,
                   invoices, selectedInvoice, showViewModal,
                   showPaymentModal, showCancelModal, showDeleteModal,
                   docCalls, movements, modalType, editingMovement,
                   formProduct, searchTerm, filterStatus, fetches>>

Auth_register ==
    /\ authCalls.getMe # "none"
    /\ ~isAuthenticated
    /\ authCalls.signIn = NULL
    /\ \E a \in AccountIds :
          authCalls' = [authCalls EXCEPT !.signIn = a, !.via = "register"]
    /\ UNCHANGED <<page, products, formClient, formSupplier, formItems,
                   quotations, editingQuotation, request, showModal,
                   submitting, error, totals, user, token, loading,
                   storedToken, lookup, viteApiUrl, fetchCall, openedBy,
                   invoices, selectedInvoice, showViewModal,
                   showPaymentModal, showCancelModal, showDeleteModal,
                   docCalls, movements, modalType, editingMovement,
                   formProduct, searchTerm, filterStatus, fetches>>

\* The response of authApi.login / authApi.register: on success the token is
\* stored and token and user are set, on failure the call throws.
Auth_signInDone ==
    /\ authCalls.signIn # NULL
    /\ \/ LET account == FindById(Accounts, authCalls.signIn)
          IN  /\ storedToken' = account.token
              /\ token' = account.token
              /\ user' = account._id
       \/ UNCHANGED <<storedToken, token, user>>
    /\ authCalls' = [authCalls EXCEPT !.signIn = NULL, !.via = NULL]
    /\ UNCHANGED <<page, products, formClient, formSupplier, formItems,
                   quotations, editingQuotation, request, showModal,
                   submitting, error, totals, loading, lookup, viteApiUrl,
                   fetchCall, openedBy, invoices, selectedInvoice,
                   showViewModal, showPaymentModal, showCancelModal,
                   showDeleteModal, docCalls, movements, modalType,
                   editingMovement, formProduct, searchTerm, filterStatus,
                   fetches>>

\* logout up to "await authApi.logout()".  The button is in the Sidebar of
\* the protected pages.
Auth_logout ==
    /\ ~loading
    /\ isAuthenticated
    /\ authCalls.logouts < MaxLogouts
    /\ authCalls' = [authCalls EXCEPT !.logouts = @ + 1]
    /\ UNCHANGED <<page, products, formClient, formSupplier, formItems,
                   quotations, editingQuotation, request, showModal,
                   submitting, error, totals, user, token, loading,
                   storedToken, lookup, viteApiUrl, fetchCall, openedBy,
                   invoices, selectedInvoice, showViewModal,
                   showPaymentModal, showCancelModal, showDeleteModal,
                   docCalls, movements, modalType, editingMovement,
                   formProduct, searchTerm, filterStatus, fetches>>

\* logout with the three statements in the try block after the await, not
\* in a finally block.
Auth_logoutDone_ClearOnSuccess ==
    /\ authCalls.logouts > 0
    /\ \E succeeded \in BOOLEAN :
          /\ IF succeeded
             THEN storedToken' = NULL /\ token' = NULL /\ user' = NULL
             ELSE UNCHANGED <<storedToken, token, user>>
          /\ authCalls' =
                [authCalls EXCEPT !.logouts = @ - 1,
                     !.logout = IF succeeded THEN "resolved" ELSE "rejected"]
    /\ UNCHANGED <<page, products, formClient, formSupplier, formItems,
                   quotations, editingQuotation, request, showModal,
                   submitting, error, totals, loading, lookup, viteApiUrl,
                   fetchCall, openedBy, invoices, selectedInvoice,
                   showViewModal, showPaymentModal, showCancelModal,
                   showDeleteModal, docCalls, movements, modalType,
                   editingMovement, formProduct, searchTerm, filterStatus,
                   fetches>>

\* The response of authApi.logout, success or failure: the finally block.
Auth_logoutDone ==
    /\ authCalls.logouts > 0
    /\ \E succeeded \in BOOLEAN :
          /\ storedToken' = NULL
          /\ token' = NULL
          /\ user' = NULL
          /\ authCalls' =
                [authCalls EXCEPT !.logouts = @ - 1,
                     !.logout = IF succeeded THEN "resolved" ELSE "rejected"]
    /\ UNCHANGED <<page, products, formClient, formSupplier, formItems,
                   quotations, editingQuotation, request, showModal,
                   submitting, error, totals, loading, lookup, viteApiUrl,
                   fetchCall, openedBy, invoices, selectedInvoice,
                   showViewModal, showPaymentModal, showCancelModal,
                   showDeleteModal, docCalls, movements, modalType,
                   editingMovement, formProduct, searchTerm, filterStatus,
                   fetches>>

\* type UserRole and type Permission of permissions.ts.
Roles == {"admin", "stock_manager", "sales", "viewer"}

Resources ==
    {"products", "invoices", "purchases", "quotations", "clients",
     "suppliers", "categories", "users"}

Permissions ==
    {r \o ":read" : r \in Resources} \cup {r \o ":create" : r \in Resources}
        \cup {r \o ":update" : r \in Resources}
        \cup {r \o ":delete" : r \in Resources}
        \cup {"stock:read", "stock:update", "reports:read", "reports:export",
              "dashboard:read"}

\* const rolePermissions: Record<UserRole, Permission[]>
rolePermissions ==
    [admin |->
        << "products:read", "products:create", "products:update",
           "products:delete",
           "invoices:read", "invoices:create", "invoices:update",
           "invoices:delete",
           "purchases:read", "purchases:create", "purchases:update",
           "purchases:delete",
           "quotations:read", "quotations:create", "quotations:update",
           "quotations:delete",
           "clients:read", "clients:create", "clients:update",
           "clients:delete",
           "suppliers:read", "suppliers:create", "suppliers:update",
           "suppliers:delete",
           "categories:read", "categories:create", "categories:update",
           "categories:delete",
           "stock:read", "stock:update",
           "users:read", "users:create", "users:update", "users:delete",
           "reports:read", "reports:export",
           "dashboard:read" >>,
     stock_manager |->
        << "products:read", "products:create", "products:update",
           "products:delete",
           "stock:read", "stock:update",
           "categories:read", "categories:create", "categories:update",
           "categories:delete",
           "dashboard:read" >>,
     sales |->
        << "products:read",
           "invoices:read", "invoices:create", "invoices:update",
           "purchases:read",
           "quotations:read", "quotations:create", "quotations:update",
           "clients:read", "clients:create", "clients:update",
           "suppliers:read",
           "categories:read",
           "stock:read",
           "reports:read", "reports:export",
           "dashboard:read" >>,
     viewer |->
        << "products:read", "invoices:read", "purchases:read",
           "quotations:read", "clients:read", "suppliers:read",
           "categories:read", "stock:read", "users:read", "reports:read",
           "dashboard:read" >>]

\* Array.prototype.includes
Includes(list, x) == \E i \in DOMAIN list : list[i] = x

\* hasPermission with an undefined role taken for a viewer.
hasPermission_DefaultViewer(role, permission) ==
    IF role = NULL THEN Includes(rolePermissions.viewer, permission)
    ELSE IF role \in DOMAIN rolePermissions
    THEN Includes(rolePermissions[role], permission)
    ELSE FALSE

\* hasPermission(role, permission) of permissions.ts; NULL is undefined.
hasPermission(role, permission) ==
    IF role = NULL THEN FALSE
    ELSE IF role \in DOMAIN rolePermissions
    THEN Includes(rolePermissions[role], permission)
    ELSE FALSE

\* No call of hasPermission is followed.
NoLookup == [none |-> TRUE]

\* A call of hasPermission returns.
Perm_hasPermission ==
    /\ "role" \in DOMAIN lookup
    /\ "granted" \notin DOMAIN lookup
    /\ lookup' = [role |-> lookup.role, permission |-> lookup.permission,
                  granted |-> hasPermission(lookup.role, lookup.permission)]
    /\ UNCHANGED <<page, products, formClient, formSupplier, formItems,
                   quotations, editingQuotation, request, showModal,
                   submitting, error, totals, user, token, loading,
                   storedToken, authCalls, viteApiUrl, fetchCall, openedBy,
                   invoices, selectedInvoice, showViewModal,
                   showPaymentModal, showCancelModal, showDeleteModal,
                   docCalls, movements, modalType, editingMovement,
                   formProduct, searchTerm, filterStatus, fetches>>

----------------------------------------------------------------------------
(* The API client: request() of api.ts. *)

\* The URL of the deployed backend's API (DEPLOY_NOTES.md).
RenderApiUrl == "https://stock-management-v3rl.onrender.com/api"

\* const API_BASE_URL = import.meta.env.VITE_API_URL || '...': an unset and
\* an empty variable both give the right operand.
API_BASE_URL ==
    IF viteApiUrl = NULL \/ viteApiUrl = ""
    THEN "http://localhost:5000/api"
    ELSE viteApiUrl

\* Endpoints the API objects pass to request().
Endpoints ==
    {"/auth/login", "/auth/me", "/auth/logout", "/products", "/invoices",
     "/purchases", "/quotations"}

\* request() was not called.
NoFetch == [none |-> TRUE]

\* request(endpoint, options) up to its fetch: the URL and the Authorization
\* header, NULL when localStorage holds no token.
Api_request ==
    /\ \E endpoint \in Endpoints :
          fetchCall' =
              [url |-> API_BASE_URL \o endpoint,
               authorization |->
                   IF storedToken # NULL THEN "Bearer " \o storedToken
                   ELSE NULL]
    /\ UNCHANGED <<page, products, formClient, formSupplier, formItems,
                   quotations, editingQuotation, request, showModal,
                   submitting, error, totals, user, token, loading,
                   storedToken, authCalls, lookup, viteApiUrl, openedBy,
                   invoices, selectedInvoice, showViewModal,
                   showPaymentModal, showCancelModal, showDeleteModal,
                   docCalls, movements, modalType, editingMovement,
                   formProduct, searchTerm, filterStatus, fetches>>

\* The build the pages and the session are followed in: VITE_API_URL set as
\* the deployment sets it.
Deployment ==
    /\ viteApiUrl = RenderApiUrl
    /\ fetchCall = NoFetch

\* InvoicesPage before fetchData: no invoice listed or selected, the
\* modals closed, no call awaited.
NoInvoiceActions ==
    /\ invoices = <<>>
    /\ selectedInvoice = NoInvoice
    /\ showViewModal = FALSE
    /\ showPaymentModal = FALSE
    /\ showCancelModal = FALSE
    /\ showDeleteModal = FALSE
    /\ docCalls = [confirm |-> NULL, recordPayment |-> NULL,
                   cancel |-> NULL, delete |-> NULL]

\* StockPage before fetchData, its modal closed.
NoStockForm ==
    /\ movements = <<>>
    /\ modalType = "in"
    /\ editingMovement = NULL
    /\ formProduct = ""

\* ProductsPage not mounted: no search, no filter, no fetch in flight.
NoProductList ==
    /\ searchTerm = ""
    /\ filterStatus = ""
    /\ fetches = {}

\* ProtectedRoute without the test of loading.
ProtectedRoute_NoLoadingTest ==
    IF isAuthenticated THEN "children" ELSE "Navigate /login"

\* What ProtectedRoute renders from the context: the loading indicator, its
\* children (the page), or <Navigate to="/login" />.
ProtectedRoute ==
    IF loading THEN "Loading..."
    ELSE IF isAuthenticated THEN "children" ELSE "Navigate /login"

\* The pages are routed inside ProtectedRoute: they are mounted in a session
\* that is initialised and authenticated.  They never read the session, so
\* they behave alike for every account; the model mounts them for the
\* viewer account.
PageSession ==
    /\ user = (CHOOSE a \in AccountIds : UserRole(a) = "viewer")
    /\ token = FindById(Accounts, user).token
    /\ storedToken = token
    /\ loading = FALSE
    /\ authCalls = [NoAuthCalls EXCEPT !.getMe = "done"]
    /\ lookup = NoLookup

----------------------------------------------------------------------------

Pages == {"invoices", "purchases", "quotations"}

\* useState<FormItem[]>([{ id: '1', ... }]) of the mounted page.
InitialItems(pg) ==
    IF pg = "invoices" THEN <<Inv_NewItem(FirstId)>>
    ELSE IF pg = "purchases" THEN <<Pur_NewItem(FirstId)>>
    ELSE <<Quo_NewItem(FirstId)>>

\* calculateTotals of the mounted page.
calculateTotals(pg, items) ==
    IF pg = "invoices" THEN Inv_calculateTotals(items)
    ELSE IF pg = "purchases" THEN Pur_calculateTotals(items)
    ELSE Quo_calculateTotals(items)

Init ==
    /\ page \in Pages
    /\ products = <<>>
    /\ formClient = ""
    /\ formSupplier = ""
    /\ formItems = InitialItems(page)
    /\ quotations = <<>>
    /\ editingQuotation = NULL
    /\ request = NULL
    /\ showModal = FALSE
    /\ submitting = FALSE
    /\ error = NULL
    /\ openedBy = NULL
    /\ NoInvoiceActions
    /\ NoStockForm
    /\ NoProductList
    /\ totals = calculateTotals(page, formItems)
    /\ PageSession
    /\ Deployment

Next ==
    \/ Inv_fetchData
    \/ Inv_openCreateModal
    \/ Inv_closeModal
    \/ Inv_selectClient
    \/ Inv_addItem
    \/ Inv_removeItem
    \/ Inv_updateItem
    \/ Inv_handleSubmit
    \/ Inv_createDone
    \/ Inv_dismissError
    \/ Pur_fetchData
    \/ Pur_openCreateModal
    \/ Pur_closeModal
    \/ Pur_selectSupplier
    \/ Pur_addItem
    \/ Pur_removeItem
    \/ Pur_updateItem
    \/ Pur_handleSubmit
    \/ Pur_createDone
    \/ Pur_dismissError
    \/ Quo_fetchData
    \/ Quo_openCreateModal
    \/ Quo_openEditModal
    \/ Quo_closeModal
    \/ Quo_setFormClient
    \/ Quo_addItem
    \/ Quo_removeItem
    \/ Quo_updateItem
    \/ Quo_handleSubmit
    \/ Quo_submitDone

Spec == Init /\ [][Next]_vars

----------------------------------------------------------------------------
(* The editing handlers alone: what a user can do to the line list of a    *)
(* form without submitting it.                                             *)

NextEdit ==
    \/ Inv_fetchData
    \/ Inv_openCreateModal
    \/ Inv_closeModal
    \/ Inv_addItem
    \/ Inv_removeItem
    \/ Inv_updateItem
    \/ Pur_fetchData
    \/ Pur_openCreateModal
    \/ Pur_closeModal
    \/ Pur_addItem
    \/ Pur_removeItem
    \/ Pur_updateItem
    \/ Quo_fetchData
    \/ Quo_openCreateModal
    \/ Quo_openEditModal
    \/ Quo_closeModal
    \/ Quo_addItem
    \/ Quo_removeItem
    \/ Quo_updateItem

SpecEdit == Init /\ [][NextEdit]_vars

----------------------------------------------------------------------------
(* calculateTotals as a function of the line list: the list is any list of *)
(* at most MaxItems lines over the field values below, the empty list      *)
(* included, and one render computes totals from it.                       *)

\* The id of the i-th line of a form that grew by addItem.
LineIdAt(i) == IF i = 1 THEN FirstId ELSE NowIds[i - 1]

Inv_Lines ==
    [product : ProductIds, quantity : Quantities,
     unitPrice : {0} \cup UnitAmounts, discount : Discounts,
     taxCode : TaxCodeType, taxRate : TaxRates]

Pur_Lines ==
    [product : ProductIds, quantity : Quantities,
     unitCost : {0} \cup UnitAmounts, discount : Discounts,
     taxCode : TaxCodeType, taxRate : TaxRates]

Quo_Lines ==
    [product : ProductIds, quantity : Quantities,
     unitPrice : {0} \cup UnitAmounts, discount : Discounts,
     taxRate : TaxRates]

LinesOf(pg) ==
    IF pg = "invoices" THEN Inv_Lines
    ELSE IF pg = "purchases" THEN Pur_Lines
    ELSE Quo_Lines

\* The lists of n lines of a page, each line with the id of its position.
ListsOf(pg, n) ==
    {[i \in 1..n |-> [id |-> LineIdAt(i)] @@ body[i]] :
        body \in [1..n -> LinesOf(pg)]}

InitCalc ==
    /\ page \in Pages
    /\ products = CatalogProducts
    /\ formClient = ""
    /\ formSupplier = ""
    /\ \E n \in 0..MaxItems : formItems \in ListsOf(page, n)
    /\ quotations = <<>>
    /\ editingQuotation = NULL
    /\ request = NULL
    /\ showModal = TRUE
    /\ submitting = FALSE
    /\ error = NULL
    /\ openedBy = NULL
    /\ NoInvoiceActions
    /\ NoStockForm
    /\ NoProductList
    /\ totals = NoTotals
    /\ PageSession
    /\ Deployment

\* const totals = calculateTotals() in the body of the component.
Inv_render ==
    /\ page = "invoices"
    /\ ~Rendered
    /\ totals' = Inv_calculateTotals(formItems)
    /\ UNCHANGED <<page, products, formClient, formSupplier, formItems,
                   quotations, editingQuotation, request, showModal,
                   submitting, error, user, token, loading, storedToken,
                   authCalls, lookup, viteApiUrl, fetchCall, openedBy,
                   invoices, selectedInvoice, showViewModal,
                   showPaymentModal, showCancelModal, showDeleteModal,
                   docCalls, movements, modalType, editingMovement,
                   formProduct, searchTerm, filterStatus, fetches>>

Pur_render ==
    /\ page = "purchases"
    /\ ~Rendered
    /\ totals' = Pur_calculateTotals(formItems)
    /\ UNCHANGED <<page, products, formClient, formSupplier, formItems,
                   quotations, editingQuotation, request, showModal,
                   submitting, error, user, token, loading, storedToken,
                   authCalls, lookup, viteApiUrl, fetchCall, openedBy,
                   invoices, selectedInvoice, showViewModal,
                   showPaymentModal, showCancelModal, showDeleteModal,
                   docCalls, movements, modalType, editingMovement,
                   formProduct, searchTerm, filterStatus, fetches>>

Quo_render ==
    /\ page = "quotations"
    /\ ~Rendered
    /\ totals' = Quo_calculateTotals(formItems)
    /\ UNCHANGED <<page, products, formClient, formSupplier, formItems,
                   quotations, editingQuotation, request, showModal,
                   submitting, error, user, token, loading, storedToken,
                   authCalls, lookup, viteApiUrl, fetchCall, openedBy,
                   invoices, selectedInvoice, showViewModal,
                   showPaymentModal, showCancelModal, showDeleteModal,
                   docCalls, movements, modalType, editingMovement,
                   formProduct, searchTerm, filterStatus, fetches>>

NextCalc ==
    \/ Inv_render
    \/ Pur_render
    \/ Quo_render

SpecCalc == InitCalc /\ [][NextCalc]_vars

----------------------------------------------------------------------------
(* Sums over the lines of a list, written by index and independently of    *)
(* the forEach of calculateTotals.                                         *)

RECURSIVE SumUpTo(_, _)
SumUpTo(f, n) == IF n = 0 THEN 0 ELSE f[n] + SumUpTo(f, n - 1)

SumOf(f) == SumUpTo(f, Len(f))

\* item.unitPrice, called item.unitCost on the purchases form.
UnitAmountOf(pg, item) ==
    IF pg = "purchases" THEN item.unitCost ELSE item.unitPrice

LineGross(pg, item) == item.quantity * UnitAmountOf(pg, item)
LineNet(pg, item) == LineGross(pg, item) - item.discount
LineTax(pg, item) == Percent(LineNet(pg, item), item.taxRate)

GrossOfLines(pg, items) ==
    [i \in DOMAIN items |-> LineGross(pg, items[i])]
DiscountOfLines(items) ==
    [i \in DOMAIN items |-> items[i].discount]
NetOfLines(pg, items, codes) ==
    [i \in DOMAIN items |->
        IF items[i].taxCode \in codes THEN LineNet(pg, items[i]) ELSE 0]
TaxOfLines(pg, items, codes) ==
    [i \in DOMAIN items |->
        IF items[i].taxCode \in codes THEN LineTax(pg, items[i]) ELSE 0]

TaxCodedPage == page \in {"invoices", "purchases"}

----------------------------------------------------------------------------
(* C1 *)

\* C1: for every line list of the invoice and of the purchase form,
\* calculateTotals returns subtotal = the sum of quantity * unit amount over
\* the lines, totalDiscount = the sum of the line discounts, totalTax =
\* totalTaxA + totalTaxB, and grandTotal = subtotal - totalDiscount + totalTax.
C1_GrandTotalIdentity ==
    (Rendered /\ TaxCodedPage) =>
        /\ totals.subtotal = SumOf(GrossOfLines(page, formItems))
        /\ totals.totalDiscount = SumOf(DiscountOfLines(formItems))
        /\ totals.totalTax = totals.totalTaxA + totals.totalTaxB
        /\ totals.grandTotal =
               totals.subtotal - totals.totalDiscount + totals.totalTax

\* Totals rendered from two invoice lines that carry a discount and a tax.
C1_Witness ==
    /\ Rendered
    /\ page = "invoices"
    /\ Len(formItems) = 2
    /\ totals.totalDiscount > 0
    /\ totals.totalTax > 0
    /\ totals.grandTotal # totals.subtotal

----------------------------------------------------------------------------
(* C2 *)

\* The quotation form hands a request to the API.
Quo_sends == page = "quotations" /\ ~submitting /\ submitting'

\* C2: the grandTotal of every quotation payload that handleSubmit sends is
\* subtotal - the sum of the line discounts + totalTax, that is the sum of
\* the per-line total values sent in the same payload.
C2_QuotationGrandTotal ==
    [][Quo_sends =>
          LET data == Quo_quotationData(formClient, formItems)
          IN  /\ data.grandTotal =
                     data.subtotal - SumOf(DiscountOfLines(formItems))
                         + data.totalTax
              /\ data.grandTotal =
                     SumOf([i \in DOMAIN data.items |-> data.items[i].total])
      ]_vars

----------------------------------------------------------------------------
(* C3 *)

\* The invoice or the purchase form hands a create request to the API.
Coded_sends == TaxCodedPage /\ ~submitting /\ submitting'

\* C3: a line whose discount exceeds quantity * unit amount is rejected:
\* the invoice and the purchase form send no create request while the list
\* holds such a line.
C3_NegativeNetRejected ==
    [][Coded_sends =>
          \A i \in DOMAIN formItems :
              formItems[i].discount <= LineGross(page, formItems[i])
      ]_vars

----------------------------------------------------------------------------
(* C4 *)

\* x rounded to 2 decimals, a tie going away from zero.
HalfAwayFromZero(x) ==
    IF x >= 0 THEN ((x + 50) \div 100) * 100
    ELSE 0 - (((0 - x) + 50) \div 100) * 100

\* C4: on the invoice and the purchase form roundedAmount is grandTotal
\* rounded to 2 decimals with ties away from zero, negative grandTotals and
\* exact half-cent boundaries included.
C4_RoundedHalfAwayFromZero ==
    TaxCodedPage =>
        totals.roundedAmount = HalfAwayFromZero(totals.grandTotal)

----------------------------------------------------------------------------
(* C5 *)

\* C5: for every line list of the invoice and of the purchase form, the
\* tax-exempt and the 18% bracket hold the net amounts and the taxes of the
\* 'A' and of the 'B' lines only, so a 'None' line adds nothing to totalAEx,
\* totalB18, totalTaxA or totalTaxB, while subtotal and totalDiscount take
\* the quantity * unit amount and the discount of every line, and grandTotal
\* the net amount of every line.
C5_NoneOutsideBrackets ==
    (Rendered /\ TaxCodedPage) =>
        /\ totals.totalAEx = SumOf(NetOfLines(page, formItems, {"A"}))
        /\ totals.totalB18 = SumOf(NetOfLines(page, formItems, {"B"}))
        /\ totals.totalTaxA = SumOf(TaxOfLines(page, formItems, {"A"}))
        /\ totals.totalTaxB = SumOf(TaxOfLines(page, formItems, {"B"}))
        /\ totals.subtotal = SumOf(GrossOfLines(page, formItems))
        /\ totals.totalDiscount = SumOf(DiscountOfLines(formItems))
        /\ totals.grandTotal =
               SumOf(NetOfLines(page, formItems, TaxCodeType))
                   + totals.totalTaxA + totals.totalTaxB

\* Totals rendered from a purchase list with a discounted 'None' line whose
\* rate is 18 and whose net amount is not 0, next to a 'B' line.
C5_Witness ==
    /\ Rendered
    /\ page = "purchases"
    /\ \E i, j \in DOMAIN formItems :
          /\ formItems[i].taxCode = "None"
          /\ formItems[i].taxRate = 18
          /\ formItems[i].discount > 0
          /\ LineNet(page, formItems[i]) # 0
          /\ formItems[j].taxCode = "B"
          /\ LineNet(page, formItems[j]) > 0

----------------------------------------------------------------------------
(* C6 *)

\* The taxAmount handleSubmit would submit for each line of the form.
SubmittedTaxAmounts ==
    IF page = "invoices"
    THEN [i \in DOMAIN formItems |-> Inv_payloadItems(formItems)[i].taxAmount]
    ELSE [i \in DOMAIN formItems |-> Pur_payloadItems(formItems)[i].taxAmount]

\* C6: in every state the invoice and the purchase form reach by editing,
\* each line with taxCode 'A' has a tax amount of 0, both as the taxAmount
\* submitted for it and as its contribution to totalTaxA, and its net amount
\* is added to totalAEx.
C6_ExemptLinesUntaxed ==
    TaxCodedPage =>
        /\ \A i \in DOMAIN formItems :
              formItems[i].taxCode = "A" => SubmittedTaxAmounts[i] = 0
        /\ totals.totalTaxA = 0
        /\ totals.totalAEx = SumOf(NetOfLines(page, formItems, {"A"}))

\* An invoice form with a priced 'A' line next to a priced 'B' line.
C6_Witness ==
    /\ page = "invoices"
    /\ Len(formItems) = 2
    /\ formItems[1].taxCode = "A"
    /\ LineNet(page, formItems[1]) > 0
    /\ formItems[2].taxCode = "B"
    /\ totals.totalAEx > 0
    /\ totals.totalB18 > 0

----------------------------------------------------------------------------
(* C7 *)

\* C7: after any sequence of openCreateModal, addItem, removeItem and
\* updateItem on the invoice and the purchase form, every line has the
\* taxRate of its taxCode: 0 for 'A', 18 for 'B', 0 for 'None'.
C7_TaxRateOfTaxCode ==
    TaxCodedPage =>
        \A i \in DOMAIN formItems :
            /\ formItems[i].taxCode = "A" => formItems[i].taxRate = 0
            /\ formItems[i].taxCode = "B" => formItems[i].taxRate = 18
            /\ formItems[i].taxCode = "None" => formItems[i].taxRate = 0

----------------------------------------------------------------------------
(* C8 *)

\* FRW {calculateItemTotal(item).toFixed(2)}: the preview of each row.
RowPreviews ==
    [i \in DOMAIN formItems |->
        IF page = "invoices" THEN Inv_calculateItemTotal(formItems[i])
        ELSE IF page = "purchases" THEN Pur_calculateItemTotal(formItems[i])
        ELSE Quo_calculateItemTotal(formItems[i])]

\* The total handleSubmit places in the payload for each line: totalWithTax
\* on the invoice and the purchase form, total on the quotation form.
PayloadLineTotals ==
    [i \in DOMAIN formItems |->
        IF page = "invoices" THEN Inv_payloadItems(formItems)[i].totalWithTax
        ELSE IF page = "purchases"
        THEN Pur_payloadItems(formItems)[i].totalWithTax
        ELSE Quo_payloadItems(formItems)[i].total]

\* C8: on the three forms the preview calculateItemTotal(item) of every row
\* equals the total that handleSubmit places in the payload for that line.
C8_PreviewEqualsPayload ==
    \A i \in DOMAIN formItems : RowPreviews[i] = PayloadLineTotals[i]

\* A purchase request in flight with a discounted, taxed line.
C8_Witness ==
    /\ page = "purchases"
    /\ request = "purchasesApi.create"
    /\ \E i \in DOMAIN formItems :
          /\ formItems[i].discount > 0
          /\ formItems[i].taxRate = 18
          /\ LineNet(page, formItems[i]) > 0
          /\ RowPreviews[i] > LineNet(page, formItems[i])

----------------------------------------------------------------------------
(* C10 *)

\* C10: calculateTotals on an empty line list returns 0 for every total.
C10_EmptyListZero ==
    (Rendered /\ formItems = <<>>) =>
        \A k \in DOMAIN totals : totals[k] = 0

\* Totals rendered from the empty list on the invoice form.
C10_Witness ==
    /\ Rendered
    /\ page = "invoices"
    /\ formItems = <<>>
    /\ totals.roundedAmount = 0

----------------------------------------------------------------------------
(* C11 *)

\* No client (supplier on the purchase form) is selected, or some line has
\* no product.
SelectionMissing ==
    \/ IF page = "purchases" THEN formSupplier = "" ELSE formClient = ""
    \/ \E i \in DOMAIN formItems : formItems[i].product = ""

\* A step that hands a create or an update request to the API.
IssuesRequest == request = NULL /\ request' # NULL

\* A step of handleSubmit of the mounted form.
HandleSubmitStep == Inv_handleSubmit \/ Pur_handleSubmit \/ Quo_handleSubmit

\* C11: with no client (supplier) selected or with a line without product,
\* no step issues a create or update request, and handleSubmit sets an
\* error message, leaves submitting false and leaves the line items as
\* they are.
C11_MissingSelectionRejected ==
    [][/\ (IssuesRequest => ~SelectionMissing)
       /\ ((HandleSubmitStep /\ SelectionMissing) =>
              /\ error' \in {"Please select a client",
                             "Please select a supplier",
                             "Please select all products"}
              /\ ~submitting'
              /\ request' = NULL
              /\ formItems' = formItems)
      ]_vars

\* A purchase form with a supplier and a line without product, after
\* handleSubmit refused it.
C11_Witness ==
    /\ page = "purchases"
    /\ showModal
    /\ formSupplier # ""
    /\ \E i \in DOMAIN formItems : formItems[i].product = ""
    /\ error = "Please select all products"
    /\ ~submitting
    /\ request = NULL

----------------------------------------------------------------------------
(* C12 *)

\* Some line asks for more than the currentStock of its product.
StockExceeded ==
    \E i \in DOMAIN formItems : \E p \in DOMAIN products :
        /\ products[p]._id = formItems[i].product
        /\ formItems[i].quantity > products[p].currentStock

----------------------------------------------------------------------------
(* The session alone: the application is loaded with or without a token   *)
(* in localStorage, and no document page is followed.                      *)

InitAuth ==
    /\ page = NULL
    /\ products = <<>>
    /\ formClient = ""
    /\ formSupplier = ""
    /\ formItems = <<>>
    /\ quotations = <<>>
    /\ editingQuotation = NULL
    /\ request = NULL
    /\ showModal = FALSE
    /\ submitting = FALSE
    /\ error = NULL
    /\ openedBy = NULL
    /\ NoInvoiceActions
    /\ NoStockForm
    /\ NoProductList
    /\ totals = NoTotals
    /\ user = NULL
    /\ storedToken \in {NULL} \cup Tokens
    /\ token = storedToken
    /\ loading = TRUE
    /\ authCalls = NoAuthCalls
    /\ lookup = NoLookup
    /\ Deployment

NextAuth ==
    \/ Auth_initAuth
    \/ Auth_getMeDone
    \/ Auth_login
    \/ Auth_register
    \/ Auth_signInDone
    \/ Auth_logout
    \/ Auth_logoutDone

SpecAuth == InitAuth /\ [][NextAuth]_vars

----------------------------------------------------------------------------
(* hasPermission as a function of its arguments: any role or undefined,   *)
(* any permission.                                                         *)

InitPerm ==
    /\ page = NULL
    /\ products = <<>>
    /\ formClient = ""
    /\ formSupplier = ""
    /\ formItems = <<>>
    /\ quotations = <<>>
    /\ editingQuotation = NULL
    /\ request = NULL
    /\ showModal = FALSE
    /\ submitting = FALSE
    /\ error = NULL
    /\ openedBy = NULL
    /\ NoInvoiceActions
    /\ NoStockForm
    /\ NoProductList
    /\ totals = NoTotals
    /\ user = NULL
    /\ storedToken = NULL
    /\ token = NULL
    /\ loading = FALSE
    /\ authCalls = NoAuthCalls
    /\ \E role \in Roles \cup {NULL}, permission \in Permissions :
          lookup = [role |-> role, permission |-> permission]
    /\ Deployment

NextPerm == Perm_hasPermission

SpecPerm == InitPerm /\ [][NextPerm]_vars

----------------------------------------------------------------------------
(* C13 *)

\* C13: a request that creates an invoice is issued from the invoices page
\* only in the session of a user whose role has the permission
\* invoices:create; a viewer never issues one.
C13_CreateNeedsPermission ==
    [][(page = "invoices" /\ IssuesRequest) =>
          hasPermission(UserRole(user), "invoices:create")
      ]_vars

----------------------------------------------------------------------------
(* C14 *)

\* C14: hasPermission(role, permission) returns true exactly when role is
\* one of the 4 roles and permission is listed for it in rolePermissions,
\* and false for an undefined role.
C14_PermissionLookup ==
    "granted" \in DOMAIN lookup =>
        /\ lookup.role = NULL => lookup.granted = FALSE
        /\ lookup.role # NULL =>
              lookup.granted =
                  (\E i \in DOMAIN rolePermissions[lookup.role] :
                      rolePermissions[lookup.role][i] = lookup.permission)

\* The lookups that returned: a permission of the viewer that is granted.
C14_Witness ==
    /\ "granted" \in DOMAIN lookup
    /\ lookup.role = "viewer"
    /\ lookup.permission = "users:read"
    /\ lookup.granted

----------------------------------------------------------------------------
(* C15 *)

\* The requests of the forms that create a document; quotationsApi.update
\* sends the line items and totals of the form to an existing quotation.
CreateRequests ==
    {"invoicesApi.create", "purchasesApi.create", "quotationsApi.create"}

\* C15: no request of a form rewrites the line items or totals of a
\* document that exists: every request a form issues creates a document.
C15_CreatedNeverRewritten ==
    [][IssuesRequest => request' \in CreateRequests]_vars

----------------------------------------------------------------------------
(* C16 *)

\* A step in which a pending logout call settles.
LogoutCompletes == authCalls'.logouts < authCalls.logouts

\* C16: when logout completes, whether authApi.logout succeeded or failed,
\* the token is removed from localStorage and token and user are null, so
\* isAuthenticated is false.
C16_LogoutClearsSession ==
    [][LogoutCompletes =>
          /\ storedToken' = NULL
          /\ token' = NULL
          /\ user' = NULL
          /\ ~isAuthenticated'
      ]_vars

\* A logout whose API call failed has completed and the session is cleared.
C16_Witness ==
    /\ authCalls.logout = "rejected"
    /\ authCalls.logouts = 0
    /\ storedToken = NULL
    /\ token = NULL
    /\ user = NULL

----------------------------------------------------------------------------
(* C17 *)

\* The effect of AuthProvider runs once the provider is mounted and the
\* promise of authApi.getMe settles, fulfilled or rejected: both steps are
\* taken when they stay enabled.
SpecAuthFair ==
    /\ InitAuth
    /\ [][NextAuth]_vars
    /\ WF_vars(Auth_initAuth)
    /\ WF_vars(Auth_getMeDone)

\* initAuth runs up to its first await or, with no stored token, to its end.
InitAuthStarts == authCalls.getMe = "none" /\ authCalls'.getMe # "none"

\* The awaited getMe call of initAuth settles and initAuth runs to its end.
GetMeSettles == authCalls.getMe = "pending" /\ authCalls'.getMe = "done"

\* Initialisation ends: loading becomes false and stays false.
C17_InitialisationEnds == <>[](~loading)

\* With no stored token initAuth ends at once, no getMe call is made and
\* user is left null; with a stored token getMe is called and awaited.
C17_WithoutToken ==
    [][InitAuthStarts =>
          IF storedToken = NULL
          THEN authCalls'.getMe = "done" /\ ~loading' /\ user' = NULL
          ELSE authCalls'.getMe = "pending" /\ authCalls'.sent = storedToken
               /\ loading'
      ]_vars

\* When getMe settles loading is false and either user is the user getMe
\* returned, or the token is removed from localStorage and the token state
\* is null; userAfterFailure is what the failure leaves in user.
C17_GetMeOutcome(userAfterFailure) ==
    GetMeSettles =>
        /\ ~loading'
        /\ \/ /\ user' = AccountOfToken(authCalls.sent)._id
              /\ storedToken' = storedToken
              /\ token' = token
           \/ /\ storedToken' = NULL
              /\ token' = NULL
              /\ user' = userAfterFailure

\* The failure of getMe leaves user as it was.
C17_FailureKeepsUser == [][C17_GetMeOutcome(user)]_vars

\* C17: session initialisation always ends with loading = false; with no
\* stored token it calls no API and leaves user null; with a stored token it
\* ends after getMe succeeds (user is the returned user) or fails (token
\* removed from localStorage, token state null, user null).
C17_SessionInitialisation ==
    /\ C17_InitialisationEnds
    /\ C17_WithoutToken
    /\ [][C17_GetMeOutcome(NULL)]_vars

----------------------------------------------------------------------------
(* C19 *)

\* C19: in every reachable state of the auth context a non-null user implies
\* a non-null token that equals the token stored in localStorage.
C19_UserImpliesStoredToken ==
    user # NULL => (token # NULL /\ token = storedToken)

----------------------------------------------------------------------------
(* request() in any build: VITE_API_URL not set, empty, or set to the      *)
(* Render URL or to another one, with or without a token in localStorage.  *)

InitApi ==
    /\ page = NULL
    /\ products = <<>>
    /\ formClient = ""
    /\ formSupplier = ""
    /\ formItems = <<>>
    /\ quotations = <<>>
    /\ editingQuotation = NULL
    /\ request = NULL
    /\ showModal = FALSE
    /\ submitting = FALSE
    /\ error = NULL
    /\ openedBy = NULL
    /\ NoInvoiceActions
    /\ NoStockForm
    /\ NoProductList
    /\ totals = NoTotals
    /\ user = NULL
    /\ storedToken \in {NULL} \cup Tokens
    /\ token = storedToken
    /\ loading = TRUE
    /\ authCalls = NoAuthCalls
    /\ lookup = NoLookup
    /\ viteApiUrl \in {NULL, "", RenderApiUrl, "https://api.example.com/api"}
    /\ fetchCall = NoFetch

NextApi == Api_request

SpecApi == InitApi /\ [][NextApi]_vars

----------------------------------------------------------------------------
(* C18 *)

\* C18: when VITE_API_URL is not set, every request is sent to the Render
\* API base URL https://stock-management-v3rl.onrender.com/api.
C18_DefaultsToRenderUrl ==
    ("url" \in DOMAIN fetchCall /\ viteApiUrl = NULL) =>
        \E endpoint \in Endpoints :
            fetchCall.url =
                "https://stock-management-v3rl.onrender.com/api" \o endpoint

----------------------------------------------------------------------------
(* C20 *)

\* C20: on the quotations page, the accepted submission of a form that
\* openCreateModal opened issues quotationsApi.create, never
\* quotationsApi.update, whatever happened before, an openEditModal whose
\* modal was closed without submitting included.
C20_CreateModalCreates ==
    [][(page = "quotations" /\ openedBy = "openCreateModal" /\ IssuesRequest)
          => request' = "quotationsApi.create"
      ]_vars

----------------------------------------------------------------------------
(* C25 *)

\* C25: in every reachable state of the invoice, purchase and quotation
\* forms the line list is not empty: removeItem never removes the last
\* line and no other form operation produces an empty list.
C25_FormItemsNonEmpty == page \in Pages => Len(formItems) >= 1

----------------------------------------------------------------------------
(* C26 *)

\* The ids of the lines of a list are pairwise distinct.
DistinctIds(items) ==
    \A i, j \in DOMAIN items : items[i].id = items[j].id => i = j

\* Lines of a list that differ from the line at the same index of another.
ChangedLines(old, new) == {i \in DOMAIN old : new[i] # old[i]}

\* C26: in every reachable state of the three forms the line ids are
\* pairwise distinct, so removeItem(id) removes exactly one line and
\* updateItem(id, field, value) changes at most the one line of that id.
C26_LineIdsDistinct ==
    /\ [](page \in Pages => DistinctIds(formItems))
    /\ [][/\ (Inv_removeItem \/ Pur_removeItem \/ Quo_removeItem)
                => Len(formItems') = Len(formItems) - 1
          /\ (Inv_updateItem \/ Pur_updateItem \/ Quo_updateItem)
                => Cardinality(ChangedLines(formItems, formItems')) <= 1
        ]_vars

----------------------------------------------------------------------------
(* C27 *)

\* handleSubmit sends the form of the quotation being edited as
\* openEditModal filled it, no field edited.
Quo_sendsUnedited ==
    /\ Quo_sends
    /\ request' = "quotationsApi.update"
    /\ Found(quotations, editingQuotation)
    /\ formClient = FindById(quotations, editingQuotation).client
    /\ formItems = Quo_itemsOf(FindById(quotations, editingQuotation))

\* C27: openEditModal followed by a submission without any edit sends, for
\* every line, the quantity, unitPrice, discount and taxRate stored in the
\* quotation, a stored taxRate of 0 included.
C27_UneditedRoundTrip ==
    [][Quo_sendsUnedited =>
          LET stored == FindById(quotations, editingQuotation).items
              sent == Quo_quotationData(formClient, formItems).items
          IN  /\ Len(sent) = Len(stored)
              /\ \A i \in DOMAIN stored :
                    /\ sent[i].quantity = stored[i].quantity
                    /\ sent[i].unitPrice = stored[i].unitPrice
                    /\ sent[i].discount = stored[i].discount
                    /\ sent[i].taxRate = stored[i].taxRate
      ]_vars

----------------------------------------------------------------------------
(* C28 *)

\* The quantity of each line that selects the product, 0 for the others.
QuantitiesOf(items, productId) ==
    [i \in DOMAIN items |->
        IF items[i].product = productId THEN items[i].quantity ELSE 0]

\* C28: a create-invoice request is sent only if, for every product, the
\* quantities of all the form lines that select it add up to at most the
\* product's currentStock.
C28_TotalQuantityWithinStock ==
    [][(page = "invoices" /\ IssuesRequest) =>
          \A k \in DOMAIN products :
              SumOf(QuantitiesOf(formItems, products[k]._id))
                  <= products[k].currentStock
      ]_vars

----------------------------------------------------------------------------
(* C22 *)

\* C22: a protected page is rendered only when loading is false and token
\* and user are both non-null; while loading is true ProtectedRoute renders
\* the loading indicator, and otherwise it redirects to /login.
C22_ProtectedPageNeedsSession ==
    /\ ProtectedRoute = "children" =>
          (~loading /\ token # NULL /\ user # NULL)
    /\ loading => ProtectedRoute = "Loading..."
    /\ (~loading /\ (token = NULL \/ user = NULL)) =>
          ProtectedRoute = "Navigate /login"

\* A login completed while the getMe call of the initialisation is pending:
\* token and user are set, loading is true, the indicator is rendered.
C22_Witness ==
    /\ loading
    /\ token # NULL
    /\ user # NULL
    /\ ProtectedRoute = "Loading..."

----------------------------------------------------------------------------
(* The actions on listed invoices: InvoicesPage with its view, payment,    *)
(* cancel and delete modals, the create form left closed.                  *)

InitDoc ==
    /\ Init
    /\ page = "invoices"

NextDoc ==
    \/ Inv_fetchData
    \/ Inv_viewInvoice
    \/ Inv_openPaymentModal
    \/ Inv_openCancelModal
    \/ Inv_openDeleteModal
    \/ Inv_closeViewModal
    \/ Inv_closePaymentModal
    \/ Inv_closeCancelModal
    \/ Inv_closeDeleteModal
    \/ Inv_handleConfirmInvoice
    \/ Inv_confirmDone
    \/ Inv_handleRecordPayment
    \/ Inv_recordPaymentDone
    \/ Inv_handleCancelInvoice
    \/ Inv_cancelDone
    \/ Inv_handleDeleteInvoice
    \/ Inv_deleteDone

SpecDoc == InitDoc /\ [][NextDoc]_vars

----------------------------------------------------------------------------
(* C23 *)

\* A step that issues the named call of invoicesApi.
Issues(api) == docCalls[api] = NULL /\ docCalls'[api] # NULL

\* C23: a confirm request is issued only for an invoice displayed as draft,
\* a payment request only for one displayed as confirmed or partial, and a
\* cancel request only for one displayed as neither cancelled nor paid; the
\* invoice a request targets is the selected one, whose status the modal
\* displays.
C23_ActionsMatchStatus ==
    [][/\ Issues("confirm") =>
             /\ docCalls'.confirm = selectedInvoice._id
             /\ selectedInvoice.status = "draft"
       /\ Issues("recordPayment") =>
             /\ docCalls'.recordPayment = selectedInvoice._id
             /\ selectedInvoice.status \in {"confirmed", "partial"}
       /\ Issues("cancel") =>
             /\ docCalls'.cancel = selectedInvoice._id
             /\ selectedInvoice.status \notin {"cancelled", "paid"}
      ]_vars

----------------------------------------------------------------------------
(* C24 *)

\* C24: invoicesApi.delete is issued only for an invoice whose displayed
\* status is draft, whichever path opened the delete confirmation.
C24_DeleteOnlyDraft ==
    [][Issues("delete") =>
          /\ docCalls'.delete = selectedInvoice._id
          /\ selectedInvoice.status = "draft"
      ]_vars

----------------------------------------------------------------------------
(* StockPage alone. *)

InitStock ==
    /\ page = "stock"
    /\ products = <<>>
    /\ formClient = ""
    /\ formSupplier = ""
    /\ formItems = <<>>
    /\ quotations = <<>>
    /\ editingQuotation = NULL
    /\ request = NULL
    /\ showModal = FALSE
    /\ submitting = FALSE
    /\ error = NULL
    /\ openedBy = NULL
    /\ NoInvoiceActions
    /\ NoStockForm
    /\ NoProductList
    /\ totals = NoTotals
    /\ PageSession
    /\ Deployment

NextStock ==
    \/ Stock_fetchData
    \/ Stock_openModal
    \/ Stock_openEditModal
    \/ Stock_closeModal
    \/ Stock_setFormProduct
    \/ Stock_handleSubmit
    \/ Stock_submitDone

SpecStock == InitStock /\ [][NextStock]_vars

----------------------------------------------------------------------------
(* C21 *)

\* C21: on the stock page the submission of a form that openModal opened
\* issues stockApi.receiveStock or stockApi.adjustStock, never
\* stockApi.updateMovement, whatever happened before, an openEditModal
\* whose modal was closed or whose update failed included.
C21_OpenModalNeverUpdates ==
    [][(page = "stock" /\ openedBy = "openModal" /\ IssuesRequest)
          => request' \in {"stockApi.receiveStock", "stockApi.adjustStock"}
      ]_vars

----------------------------------------------------------------------------
(* ProductsPage alone, after the effect of the first render called         *)
(* fetchData.                                                              *)

InitList ==
    /\ page = "products"
    /\ products = <<>>
    /\ formClient = ""
    /\ formSupplier = ""
    /\ formItems = <<>>
    /\ quotations = <<>>
    /\ editingQuotation = NULL
    /\ request = NULL
    /\ showModal = FALSE
    /\ submitting = FALSE
    /\ error = NULL
    /\ openedBy = NULL
    /\ NoInvoiceActions
    /\ NoStockForm
    /\ searchTerm = ""
    /\ filterStatus = ""
    /\ fetches = {[search |-> "", status |-> ""]}
    /\ totals = NoTotals
    /\ PageSession
    /\ Deployment

NextList ==
    \/ Prod_setSearchTerm
    \/ Prod_setFilterStatus
    \/ Prod_fetchDone

SpecList == InitList /\ [][NextList]_vars

----------------------------------------------------------------------------
(* C29 *)

\* C29: once every response has arrived, none of them a failure, the list
\* displayed is the response to the current search term and filter,
\* whatever the order in which the responses arrived.
C29_ListMatchesLatestSearch ==
    (page = "products" /\ fetches = {} /\ error = NULL) =>
        products =
            Backend_getAll([search |-> searchTerm, status |-> filterStatus])

====
